---- MODULE Spec2Model ----
(***************************************************************************)
(* Verification model of mgeselle/spectra.                                 *)
(*                                                                         *)
(*  Spec         TaskDialog (taskdialog.py) running Reduce._reduce_dark    *)
(*               (reduce.py), with the loops of Dark.correct (dark.py) and *)
(*               extract.optimal (extract.py) that take the callback.      *)
(*  SpecConfig   the lock discipline of Config's accessors (config.py).    *)
(*  SpecExtract  the rejection loops of extract._create_sky_image and      *)
(*               extract._extract_spectrum (extract.py, extract2.py).      *)
(*  SpecCalib    the peak table of calib2.CalibDialog / SpecSelector.      *)
(*  SpecDark     dark.Dark.correct with its direct and scaled corrections. *)
(*  SpecBounds   extract.optimal with _find_image_bounds.                  *)
(*  SpecSlant    slant.Slant: the slant fit and _move_row.                 *)
(*  SpecRotate   rotate.Rotate: the angle found from two sample columns.   *)
(*  SpecView     specview: the readers of a spectrum header.               *)
(*  SpecName     extract.optimal: the names of the files it writes.        *)
(*  SpecRetr     CalibConfigurator: retrieval of reference spectra.        *)
(***************************************************************************)
EXTENDS Integers, Sequences, FiniteSets, TLC

VARIABLES
    \* ---- TaskDialog / Reduce -------------------------------------------
    cancel_flag,      \* TaskDialog.cancel_flag (threading.Event)
    progOpen,         \* TaskDialog._progress is not None
    progOwner,        \* the task whose run_task created _progress
    wasCancelled,     \* the user pressed Cancel on the wx.ProgressDialog
    showPending,      \* the progress dialog reached its maximum and hides
    dialogShown,      \* the Reduce dialog itself is shown
    queue,            \* events queued with QueueEvent, not yet handled
    started,          \* number of run_task calls so far
    task,             \* per worker thread: position and locals of _reduce_dark
    dirs,             \* temporary directories under output_path: <<task, stage>>
    spectra,          \* tasks that wrote a spectrum into output_path
    lastApplied,      \* per task: sequence number of the last event applied
    completeApplied,  \* per task: 'Data reduction complete.' was applied
    cancelStage,      \* per task: stage the worker was in when it was cancelled
                      \* (0: not cancelled before its completion message)
    \* ---- Config --------------------------------------------------------
    lock,             \* Config._lock: 0 when free, else the thread that acquired it
    cfgPath,          \* wx.ConfigBase current path
    groups,           \* groups present in the store: <<section, name>>
    cth,              \* per thread: accessor being executed and position
    \* ---- extract -------------------------------------------------------
    ex,               \* state of _create_sky_image / _extract_spectrum
    \* ---- calib2.CalibDialog / SpecSelector ------------------------------
    entries,          \* SpecSelector._entries: rows of [pixel, wave_len]
    editors,          \* per grid row: wavelengths offered by its cell editor
    selected,         \* pixel of SpecSelector._selected_entry, 0 for None
    degree,           \* CalibDialog._degree: [value, max]
    calcEnabled,      \* CalibDialog._calc_btn is enabled
    pendingNVC,       \* queued NumValidChgEvent not yet handled
    lastFit,          \* the last fit computed by _on_calc_btn: [n, deg]
    calTick,          \* flips on every cell edit the user attempts
    calOutcome,       \* what became of the last cell edit
    \* ---- dark.Dark ------------------------------------------------------
    dk,               \* Dark: its bias and darks, and the file last corrected
    \* ---- extract.optimal / _find_image_bounds ---------------------------
    ob,               \* optimal(): position in its loop and the last bounds
    \* ---- slant.Slant ----------------------------------------------------
    sl,               \* Slant: the peaks of the calibration image, the fit,
                      \* and the frame last written by apply
    \* ---- rotate.Rotate --------------------------------------------------
    rt,               \* Rotate: the two sample columns and the angle
    \* ---- specview -------------------------------------------------------
    sv,               \* a spectrum header and what each reader made of it
    \* ---- extract.optimal: names of the files written --------------------
    nm,               \* the input files and the files optimal() wrote
    \* ---- CalibConfigurator: retrieval of reference spectra --------------
    rr                \* the retrieval worker, _event_ack and the event queue

reduceVars == <<cancel_flag, progOpen, progOwner, wasCancelled, showPending,
                dialogShown, queue, started, task, dirs, spectra,
                lastApplied, completeApplied, cancelStage>>
configVars == <<lock, cfgPath, groups, cth>>
extractVars == <<ex>>
calibVars == <<entries, editors, selected, degree, calcEnabled, pendingNVC,
               lastFit, calTick, calOutcome>>
darkVars == <<dk>>
boundsVars == <<ob>>
moreVars == <<sl, rt, sv, nm, rr>>
laterVars == <<calibVars, darkVars, boundsVars, moreVars>>
oldVars == <<reduceVars, configVars, extractVars, calibVars, darkVars, boundsVars>>
vars == <<reduceVars, configVars, extractVars, laterVars>>

(***************************************************************************)
(* Bounds of the model.                                                    *)
(***************************************************************************)
MaxTasks == 2       \* run_task calls on one dialog
NumFiles == 1       \* files handed to each per-file loop
MaxQueue == 2       \* events waiting in the wx event queue

Tasks == 1..MaxTasks

(***************************************************************************)
(* TaskDialog and Reduce                                                   *)
(***************************************************************************)
None == "None"

\* Stages of _reduce_dark, in the order of reduce.py:297-343.
StDark == 1
StRotate == 2
StFlat == 3
StSlant == 4
StExtract == 5

Terminal == {"idle", "done", "cancelled", "raised"}

\* reduce.py:285-293, 297, 308, 320: which stages a parameter set runs.
Runs(p, k) ==
    CASE k = StDark -> p.dark
      [] k = StRotate -> p.rot
      [] k = StFlat -> p.flat
      [] OTHER -> TRUE

\* The first stage from k on that the parameters run (slant and extract always run).
RECURSIVE NextStage(_, _)
NextStage(p, k) == IF Runs(p, k) THEN k ELSE NextStage(p, k + 1)

IdleTask ==
    [pc |-> "idle", dark |-> FALSE, rot |-> FALSE, flat |-> FALSE,
     output |-> None, previous_output |-> None, input_dir |-> None,
     expected |-> None, latest |-> None, idx |-> 0, after |-> "idle",
     spKind |-> "progress", spRes |-> FALSE, stage |-> 0, sent |-> 0,
     trueSeen |-> FALSE, sentAtTrue |-> 0, completeSent |-> FALSE]

InitReduce ==
    /\ cancel_flag = FALSE
    /\ progOpen = FALSE
    /\ progOwner = 0
    /\ wasCancelled = FALSE
    /\ showPending = FALSE
    /\ dialogShown = TRUE
    /\ queue = <<>>
    /\ started = 0
    /\ task = [t \in Tasks |-> IdleTask]
    /\ dirs = {}
    /\ spectra = {}
    /\ lastApplied = [t \in Tasks |-> 0]
    /\ completeApplied = [t \in Tasks |-> FALSE]
    /\ cancelStage = [t \in Tasks |-> 0]

\* wx.EvtHandler.QueueEvent: the event joins the pending events at the back.
QueueEventFront(q, e) == <<e>> \o q
QueueEvent(q, e) == Append(q, e)

\* The worker thread ends (return at reduce.py:303, 317, 329, 340, end of
\* _reduce_dark, or an exception): its locals are gone; what it did stays.
Return(r, l) ==
    [IdleTask EXCEPT !.pc = l, !.stage = r.stage, !.sent = r.sent,
                     !.spRes = r.spRes, !.trueSeen = r.trueSeen,
                     !.sentAtTrue = r.sentAtTrue,
                     !.completeSent = r.completeSent]

\* A call of self.send_progress(value, message) that continues at ret.
Call(r, kind, ret) == [r EXCEPT !.pc = "sp_check", !.spKind = kind, !.after = ret]

\* Dark.correct, dark.py:37-42 and 62-63: the callback before each file, and
\* 'Dark correction complete' after the last.
DarkLoop(r) ==
    IF r.idx < NumFiles THEN Call(r, "progress", "dark_file")
                        ELSE Call(r, "progress", "dark_chk")

\* Rotate.rotate(file_list, rotate_output, callback, budget=, start_with=) as
\* reduce.py:381 calls it: the callback before each file, as in Dark.correct.
RotateLoop(r) ==
    IF r.idx < NumFiles THEN Call(r, "progress", "rot_file")
                        ELSE [r EXCEPT !.pc = "rot_chk"]

\* extract.optimal, extract.py:80-84: the callback before each file.
OptimalLoop(r) ==
    IF r.idx < NumFiles THEN Call(r, "progress", "ext_file")
                        ELSE [r EXCEPT !.pc = "ext_write"]

\* _extract_spectra, reduce.py:422-434: the files are taken from input_dir, or
\* from the raw inputs when input_dir is None.
ExtractBegin(r) ==
    LET b == [r EXCEPT !.input_dir = r.output, !.expected = r.latest, !.idx = 0] IN
    IF r.rot THEN OptimalLoop(b) ELSE [b EXCEPT !.pc = "ext_simple"]

\* reduce.py:298, 309, 321, 332, 343: a stage opens with its progress message
\* (result ignored); extraction opens with none.
StartStage(r, k) ==
    LET b == [r EXCEPT !.stage = k] IN
    CASE k = StDark -> Call(b, "progress", "dark_ctor")
      [] k = StRotate -> Call(b, "progress", "rot_ctor")
      [] k = StFlat -> Call(b, "progress", "flat_body")
      [] k = StSlant -> Call(b, "progress", "slant_body")
      [] OTHER -> ExtractBegin(b)

\* TaskDialog.run_task, called from Reduce._do_reduce on the interactive thread.
\* The progress dialog (no wx.PD_APP_MODAL) disables its parent while it exists,
\* so OK can be pressed again only when _progress is gone.
run_task(t, p) ==
    /\ dialogShown
    /\ ~progOpen
    /\ started < MaxTasks
    /\ t = started + 1
    /\ started' = t
    /\ cancel_flag' = FALSE
    /\ progOpen' = TRUE
    /\ progOwner' = t
    /\ wasCancelled' = FALSE
    /\ showPending' = FALSE
    /\ task' = [task EXCEPT ![t] =
                  StartStage([IdleTask EXCEPT !.dark = p.dark, !.rot = p.rot,
                                              !.flat = p.flat],
                             NextStage(p, StDark))]
    /\ UNCHANGED <<dialogShown, queue, dirs, spectra, lastApplied,
                   completeApplied, cancelStage>>

\* The user presses Cancel on the progress dialog: wx records it in the dialog.
user_cancel ==
    /\ progOpen
    /\ ~wasCancelled
    /\ ~showPending
    /\ wasCancelled' = TRUE
    /\ UNCHANGED <<cancel_flag, progOpen, progOwner, showPending, dialogShown,
                   queue, started, task, dirs, spectra, lastApplied,
                   completeApplied, cancelStage>>

\* TaskDialog._on_progress, taskdialog.py:79-88, handling the oldest queued event.
\* Update() returns running = FALSE once the user has pressed Cancel.  Whether
\* Destroy() of the progress dialog delivers a wx.EVT_SHOW to _on_progress_show
\* (which hides the Reduce dialog, line 103) is left to the platform: both happen.
on_progress ==
    /\ queue # <<>>
    /\ LET e == Head(queue) IN
       /\ queue' = Tail(queue)
       /\ IF ~progOpen
          THEN UNCHANGED <<cancel_flag, progOpen, showPending, dialogShown,
                           lastApplied, completeApplied, cancelStage>>
          ELSE /\ lastApplied' = [lastApplied EXCEPT ![e.task] = e.seq]
               /\ completeApplied' =
                     [completeApplied EXCEPT ![e.task] = @ \/ e.kind = "complete"]
               /\ IF wasCancelled
                  THEN /\ cancel_flag' = TRUE
                       /\ progOpen' = FALSE
                       /\ showPending' = FALSE
                       /\ \E shown \in BOOLEAN : dialogShown' = shown
                       /\ cancelStage' =
                             IF task[progOwner].pc \notin Terminal
                                  /\ ~task[progOwner].completeSent
                             THEN [cancelStage EXCEPT
                                      ![progOwner] = task[progOwner].stage]
                             ELSE cancelStage
                  ELSE /\ showPending' = (showPending \/ e.kind = "complete")
                       /\ UNCHANGED <<cancel_flag, progOpen, dialogShown,
                                      cancelStage>>
    /\ UNCHANGED <<progOwner, wasCancelled, started, task, dirs, spectra>>

\* TaskDialog._on_progress_show, taskdialog.py:91-103: the progress dialog was
\* hidden after reaching its maximum.  Reduce sets no completion callback and is
\* shown non-modally, so the dialog hides itself.
on_progress_show ==
    /\ showPending
    /\ showPending' = FALSE
    /\ progOpen' = FALSE
    /\ dialogShown' = FALSE
    /\ UNCHANGED <<cancel_flag, progOwner, wasCancelled, queue, started, task,
                   dirs, spectra, lastApplied, completeApplied, cancelStage>>

\* What a worker step leaves alone on the interactive side.
WorkerFrame ==
    UNCHANGED <<cancel_flag, progOpen, progOwner, wasCancelled, showPending,
                dialogShown, started, lastApplied, completeApplied, cancelStage>>

Goto(t, r) == task' = [task EXCEPT ![t] = r]

\* TaskDialog.send_progress, taskdialog.py:67-69: queue unless cancelled.
send_progress_check(t) ==
    /\ task[t].pc = "sp_check"
    /\ IF ~cancel_flag
       THEN /\ Len(queue) < MaxQueue
            /\ queue' = QueueEvent(queue, [task |-> t, seq |-> task[t].sent + 1,
                                           kind |-> task[t].spKind])
            /\ Goto(t, [task[t] EXCEPT
                           !.pc = "sp_return", !.sent = @ + 1,
                           !.completeSent = @ \/ task[t].spKind = "complete"])
       ELSE /\ Goto(t, [task[t] EXCEPT !.pc = "sp_return"])
            /\ UNCHANGED queue
    /\ UNCHANGED <<dirs, spectra>>
    /\ WorkerFrame

\* TaskDialog.send_progress, taskdialog.py:70: return self.cancel_flag.is_set().
send_progress_return(t) ==
    /\ task[t].pc = "sp_return"
    /\ Goto(t, [task[t] EXCEPT
                  !.pc = task[t].after, !.spRes = cancel_flag,
                  !.trueSeen = @ \/ cancel_flag,
                  !.sentAtTrue = IF cancel_flag /\ ~task[t].trueSeen
                                 THEN task[t].sent ELSE @])
    /\ UNCHANGED <<queue, dirs, spectra>>
    /\ WorkerFrame

\* reduce.py:300-304, 314-318, 326-330, 337-341: the check after a stage.  A
\* cancelled worker returns; otherwise it goes on to the next stage it runs.
StageCheck(r, k) ==
    IF cancel_flag THEN Return(r, "cancelled")
                   ELSE StartStage(r, NextStage(r, k + 1))

\* reduce.py:302, 316, 328, 339: if output: util.remove_dir_recursively(output).
CheckRemoves(r) == IF cancel_flag THEN {r.output} ELSE {}

\* Reduce._apply_dark_correction, reduce.py:350-354.
apply_dark_correction(t) ==
    /\ task[t].pc = "dark_ctor"
    /\ IF cancel_flag
       THEN /\ Goto(t, [task[t] EXCEPT !.pc = "dark_chk"])
            /\ UNCHANGED dirs
       ELSE /\ dirs' = dirs \cup {<<t, "dark">>}
            /\ Goto(t, DarkLoop([task[t] EXCEPT !.idx = 0]))
    /\ UNCHANGED <<queue, spectra>>
    /\ WorkerFrame

\* dark.py:41-60: if callback(index, msg): return; otherwise the corrected frame
\* is written into the dark directory.
dark_correct_file(t) ==
    /\ task[t].pc = "dark_file"
    /\ IF task[t].spRes
       THEN Goto(t, [task[t] EXCEPT !.pc = "dark_chk"])
       ELSE Goto(t, DarkLoop([task[t] EXCEPT !.idx = @ + 1, !.latest = "dark"]))
    /\ UNCHANGED <<queue, dirs, spectra>>
    /\ WorkerFrame

\* reduce.py:299 with 349-361: _apply_dark_correction has no return statement
\* after dark.correct, so output is None on every path.
apply_dark_return(r) == [r EXCEPT !.output = None]

\* reduce.py:299-304.
reduce_dark_check(t) ==
    /\ task[t].pc = "dark_chk"
    /\ LET r == apply_dark_return(task[t]) IN
       /\ dirs' = dirs \ {<<t, d>> : d \in CheckRemoves(r)}
       /\ Goto(t, StageCheck(r, StDark))
    /\ UNCHANGED <<queue, spectra>>
    /\ WorkerFrame

\* reduce.py:310-311 with _rotate_images, reduce.py:365-380: the directory is made
\* first, the files are read from previous_output (or the raw inputs when it is
\* None), and a cancelled worker returns the empty directory.
rotate_images(t) ==
    /\ task[t].pc = "rot_ctor"
    /\ dirs' = dirs \cup {<<t, "rot">>}
    /\ LET r == [task[t] EXCEPT !.previous_output = task[t].output,
                                !.input_dir = task[t].output,
                                !.expected = task[t].latest,
                                !.output = "rot", !.idx = 0] IN
       Goto(t, IF cancel_flag THEN [r EXCEPT !.pc = "rot_chk"] ELSE RotateLoop(r))
    /\ UNCHANGED <<queue, spectra>>
    /\ WorkerFrame

rotate_file(t) ==
    /\ task[t].pc = "rot_file"
    /\ IF task[t].spRes
       THEN Goto(t, [task[t] EXCEPT !.pc = "rot_chk"])
       ELSE Goto(t, RotateLoop([task[t] EXCEPT !.idx = @ + 1, !.latest = "rot"]))
    /\ UNCHANGED <<queue, dirs, spectra>>
    /\ WorkerFrame

\* reduce.py:312-318.
reduce_rotate_check(t) ==
    /\ task[t].pc = "rot_chk"
    /\ dirs' = (dirs \ {<<t, task[t].previous_output>>})
                  \ {<<t, d>> : d \in CheckRemoves(task[t])}
    /\ Goto(t, StageCheck(task[t], StRotate))
    /\ UNCHANGED <<queue, spectra>>
    /\ WorkerFrame

\* reduce.py:322-323 with _apply_flat_correction, reduce.py:385-400.
apply_flat_correction(t) ==
    /\ task[t].pc = "flat_body"
    /\ dirs' = dirs \cup {<<t, "flat">>}
    /\ Goto(t, [task[t] EXCEPT
                  !.previous_output = task[t].output,
                  !.input_dir = task[t].output,
                  !.expected = task[t].latest,
                  !.output = "flat",
                  !.latest = "flat",
                  !.pc = "flat_chk"])
    /\ UNCHANGED <<queue, spectra>>
    /\ WorkerFrame

\* reduce.py:324-330.
reduce_flat_check(t) ==
    /\ task[t].pc = "flat_chk"
    /\ dirs' = (dirs \ {<<t, task[t].previous_output>>})
                  \ {<<t, d>> : d \in CheckRemoves(task[t])}
    /\ Goto(t, StageCheck(task[t], StFlat))
    /\ UNCHANGED <<queue, spectra>>
    /\ WorkerFrame

\* reduce.py:333-334 with _apply_slant_correction, reduce.py:402-418: Slant reads
\* the calibration file, then the flag is tested before the directory is made
\* and slt.apply writes the corrected files.
apply_slant_correction(t) ==
    /\ task[t].pc = "slant_body"
    /\ LET r == [task[t] EXCEPT !.previous_output = task[t].output,
                                !.input_dir = task[t].output,
                                !.expected = task[t].latest,
                                !.pc = "slant_chk"] IN
       IF cancel_flag
       THEN /\ Goto(t, [r EXCEPT !.output = None])
            /\ UNCHANGED dirs
       ELSE /\ dirs' = dirs \cup {<<t, "slant">>}
            /\ Goto(t, [r EXCEPT !.output = "slant", !.latest = "slant"])
    /\ UNCHANGED <<queue, spectra>>
    /\ WorkerFrame

\* reduce.py:335-343.
reduce_slant_check(t) ==
    /\ task[t].pc = "slant_chk"
    /\ dirs' = (dirs \ {<<t, task[t].previous_output>>})
                  \ {<<t, d>> : d \in CheckRemoves(task[t])}
    /\ Goto(t, StageCheck(task[t], StSlant))
    /\ UNCHANGED <<queue, spectra>>
    /\ WorkerFrame

\* extract.py:83-101: if callback(progress, msg): return None, None; otherwise
\* one file is extracted into out_data.
optimal_file(t) ==
    /\ task[t].pc = "ext_file"
    /\ IF task[t].spRes
       THEN Goto(t, [task[t] EXCEPT !.pc = "ext_none"])
       ELSE Goto(t, OptimalLoop([task[t] EXCEPT !.idx = @ + 1]))
    /\ UNCHANGED <<queue, dirs, spectra>>
    /\ WorkerFrame

\* extract.py:103-149: the extracted spectrum is written into output_path and the
\* limits are returned; reduce.py:439-440 then extracts the calibration spectrum
\* unless the flag is set.
optimal_write(t) ==
    /\ task[t].pc = "ext_write"
    /\ spectra' = spectra \cup {t}
    /\ Goto(t, [task[t] EXCEPT !.pc = "ext_end"])
    /\ UNCHANGED <<queue, dirs>>
    /\ WorkerFrame

\* reduce.py:439-440 after optimal returned (None, None): with the flag clear,
\* simple_single compares None with 0 (extract.py:57) and raises TypeError.
extract_calib_none(t) ==
    /\ task[t].pc = "ext_none"
    /\ Goto(t, IF cancel_flag THEN [task[t] EXCEPT !.pc = "ext_end"]
                              ELSE Return(task[t], "raised"))
    /\ UNCHANGED <<queue, dirs, spectra>>
    /\ WorkerFrame

\* reduce.py:441-444: ex_simple of the programme files and the calibration file.
extract_simple(t) ==
    /\ task[t].pc = "ext_simple"
    /\ spectra' = spectra \cup {t}
    /\ Goto(t, [task[t] EXCEPT !.pc = "ext_end"])
    /\ UNCHANGED <<queue, dirs>>
    /\ WorkerFrame

\* reduce.py:344-347: the last directory is removed, and 'Data reduction
\* complete.' is sent unless the flag is set.
reduce_complete(t) ==
    /\ task[t].pc = "ext_end"
    /\ dirs' = dirs \ {<<t, task[t].output>>}
    /\ IF cancel_flag
       THEN Goto(t, Return(task[t], "done"))
       ELSE Goto(t, Call(task[t], "complete", "fin"))
    /\ UNCHANGED <<queue, spectra>>
    /\ WorkerFrame

\* End of _reduce_dark after reduce.py:347.
reduce_return(t) ==
    /\ task[t].pc = "fin"
    /\ Goto(t, Return(task[t], "done"))
    /\ UNCHANGED <<queue, dirs, spectra>>
    /\ WorkerFrame

\* Labels at which the worker opens, reads or writes files: any of them can raise
\* (OSError, a malformed FITS file).  threading.Thread(target=target),
\* taskdialog.py:63-64, has no handler: the thread ends and nothing is queued.
Raising == {"dark_ctor", "dark_file", "rot_ctor", "rot_file", "flat_body",
            "slant_body", "ext_file", "ext_write", "ext_simple"}

worker_raise(t) ==
    /\ task[t].pc \in Raising
    /\ Goto(t, Return(task[t], "raised"))
    /\ UNCHANGED <<queue, dirs, spectra>>
    /\ WorkerFrame

\* ReduceParams as _reduce_dark tests them: dark_files, pgm_files without limits,
\* flat_path (reduce.py:285-293).  Two parameter sets: the full reduction (all
\* five stages, optimal extraction) and the shortest one (slant correction and
\* simple extraction of a calibration file with given limits).
Params == {[dark |-> b, rot |-> b, flat |-> b] : b \in BOOLEAN}

Worker(t) ==
    \/ send_progress_check(t)
    \/ send_progress_return(t)
    \/ apply_dark_correction(t)
    \/ dark_correct_file(t)
    \/ reduce_dark_check(t)
    \/ rotate_images(t)
    \/ rotate_file(t)
    \/ reduce_rotate_check(t)
    \/ apply_flat_correction(t)
    \/ reduce_flat_check(t)
    \/ apply_slant_correction(t)
    \/ reduce_slant_check(t)
    \/ optimal_file(t)
    \/ optimal_write(t)
    \/ extract_calib_none(t)
    \/ extract_simple(t)
    \/ reduce_complete(t)
    \/ reduce_return(t)
    \/ worker_raise(t)

NextReduce ==
    /\ \/ \E t \in Tasks, p \in Params : run_task(t, p)
       \/ user_cancel
       \/ on_progress
       \/ on_progress_show
       \/ \E t \in Tasks : Worker(t)
    /\ UNCHANGED <<configVars, extractVars, laterVars>>

(***************************************************************************)
(* Config                                                                  *)
(***************************************************************************)
NumThreads == 2     \* threads calling accessors of the one Config instance

CfgThreads == 1..NumThreads
CfgNames == {"a", "b"}
CfgOps == {"get_camera_config", "save_camera_config", "get_location",
           "save_location", "delete_location"}

\* The section an accessor changes into with _cd_cfg_path.
Section(op) ==
    IF op \in {"get_camera_config", "save_camera_config"} THEN "Camera"
                                                          ELSE "Location"

CfgIdle == [op |-> "none", pc |-> "idle", name |-> "a", old_path |-> <<>>]

InitConfig ==
    /\ lock = 0
    /\ cfgPath = <<>>
    /\ groups = {}
    /\ cth = [c \in CfgThreads |-> CfgIdle]

\* A thread calls Config.get().<op>(name).
cfg_call(c, op, n) ==
    /\ cth[c].pc = "idle"
    /\ cth' = [cth EXCEPT ![c] = [CfgIdle EXCEPT !.op = op, !.pc = "acquire",
                                                 !.name = n]]
    /\ UNCHANGED <<lock, cfgPath, groups>>

\* self._lock.acquire(), config.py:51, 67, 148, 164, 178: blocks while it is held.
cfg_acquire(c) ==
    /\ cth[c].pc = "acquire"
    /\ lock = 0
    /\ lock' = c
    /\ cth' = [cth EXCEPT ![c].pc = "cd"]
    /\ UNCHANGED <<cfgPath, groups>>

\* Config._cd_cfg_path, config.py:90-93: remember the path, change into the section.
cfg_cd(c) ==
    /\ cth[c].pc = "cd"
    /\ cfgPath' = <<Section(cth[c].op)>>
    /\ cth' = [cth EXCEPT ![c].pc = "body", ![c].old_path = cfgPath]
    /\ UNCHANGED <<lock, groups>>

\* The accessor's work on the store: config.py:54-58 (get_camera_config), 69-72
\* (save_camera_config), 153-159 (get_location), 168-172 (save_location),
\* 182-184 (delete_location).
cfg_body(c) ==
    /\ cth[c].pc = "body"
    /\ LET g == <<Section(cth[c].op), cth[c].name>> IN
       CASE cth[c].op \in {"get_camera_config", "get_location"} ->
               /\ cfgPath' = IF g \in groups THEN g ELSE cfgPath
               /\ UNCHANGED groups
         [] cth[c].op \in {"save_camera_config", "save_location"} ->
               /\ cfgPath' = g
               /\ groups' = groups \cup {g}
         [] OTHER ->
               /\ groups' = groups \ {g}
               /\ UNCHANGED cfgPath
    /\ cth' = [cth EXCEPT ![c].pc = "finally"]
    /\ UNCHANGED lock

\* What the accessor's finally clause leaves in _lock: config.py:61-63 and 74-76
\* (release if locked), 160-161 and 174-175 (release); delete_location's finally,
\* config.py:185-186, only restores the path.
LockAfter(op, l) == IF op = "delete_location" THEN l ELSE 0

\* SetPath(old_path), the finally clause, and the return.
cfg_finally(c) ==
    /\ cth[c].pc = "finally"
    /\ cfgPath' = cth[c].old_path
    /\ lock' = LockAfter(cth[c].op, lock)
    /\ cth' = [cth EXCEPT ![c] = CfgIdle]
    /\ UNCHANGED groups

NextConfig ==
    /\ \/ \E c \in CfgThreads, op \in CfgOps, n \in CfgNames : cfg_call(c, op, n)
       \/ \E c \in CfgThreads : cfg_acquire(c)
       \/ \E c \in CfgThreads : cfg_cd(c)
       \/ \E c \in CfgThreads : cfg_body(c)
       \/ \E c \in CfgThreads : cfg_finally(c)
    /\ UNCHANGED <<reduceVars, extractVars, laterVars>>

(***************************************************************************)
(* extract: numbers are exact rationals <<numerator, denominator>>, and an  *)
(* element of a numpy.ma array is [v |-> data, m |-> masked].               *)
(***************************************************************************)
NY == 2             \* rows of the trace window, data_low..data_high
NX == 1             \* columns of the image
NSky == 2           \* sky rows of the column handed to the sky fit

Rows == 1..NY
Cols == 1..NX
Pix == Rows \X Cols
SkyRows == 1..NSky

\* CameraConfig of the run.
config == [ron |-> 1, gain |-> 1]

\* Thresholds of the rejection loops.
SkyLimit == 16          \* extract.py:268
ProfileLimit == 16      \* extract.py:339
InitialLimit == 25      \* extract.py:361
LimitStep == 10         \* extract.py:366
rej_cutoff == 100       \* extract.py:362

\* Pixel values of the input frame, sky levels, and the values a fitted
\* polynomial takes at a pixel.
DataVals == {0, 2, 8}
SkyVals == {0, 28}
FitVals == {-1, 1, 3}
SkyFitVals == {0, 10}

Abs(n) == IF n < 0 THEN -n ELSE n

RECURSIVE GCD(_, _)
GCD(a, b) == IF b = 0 THEN a ELSE GCD(b, a % b)

Rat(n, d) ==
    LET g == GCD(Abs(n), Abs(d)) IN
    IF d < 0 THEN <<(-n) \div g, (-d) \div g>> ELSE <<n \div g, d \div g>>

\* Common factors are cancelled before multiplying, to keep the integers small.
RInt(n) == <<n, 1>>
RAdd(a, b) ==
    LET g == GCD(a[2], b[2]) IN
    Rat(a[1] * (b[2] \div g) + b[1] * (a[2] \div g), (a[2] \div g) * b[2])
RNeg(a) == <<-a[1], a[2]>>
RSub(a, b) == RAdd(a, RNeg(b))
RMul(a, b) ==
    LET g1 == GCD(Abs(a[1]), b[2])
        g2 == GCD(Abs(b[1]), a[2])
    IN Rat((a[1] \div g1) * (b[1] \div g2), (a[2] \div g2) * (b[2] \div g1))
RInv(a) == IF a[1] < 0 THEN <<-a[2], -a[1]>> ELSE <<a[2], a[1]>>
RDiv(a, b) == RMul(a, RInv(b))
RAbs(a) == <<Abs(a[1]), a[2]>>
RGt(a, b) ==
    LET g == GCD(a[2], b[2]) IN a[1] * (b[2] \div g) > b[1] * (a[2] \div g)

\* numpy.ma element-wise operations: the result is masked where an operand is
\* masked (and, for a division, where the divisor is zero); a masked result
\* keeps the first operand's data.
M(v) == [v |-> v, m |-> FALSE]
MAdd(a, b) == [v |-> IF a.m \/ b.m THEN a.v ELSE RAdd(a.v, b.v), m |-> a.m \/ b.m]
MSub(a, b) == [v |-> IF a.m \/ b.m THEN a.v ELSE RSub(a.v, b.v), m |-> a.m \/ b.m]
MMul(a, b) == [v |-> IF a.m \/ b.m THEN a.v ELSE RMul(a.v, b.v), m |-> a.m \/ b.m]
MDiv(a, b) ==
    LET bad == a.m \/ b.m \/ b.v[1] = 0 IN
    [v |-> IF bad THEN a.v ELSE RDiv(a.v, b.v), m |-> bad]
MAbs(a) == [v |-> IF a.m THEN a.v ELSE RAbs(a.v), m |-> a.m]
MSq(a) == [v |-> IF a.m THEN a.v ELSE RMul(a.v, a.v), m |-> a.m]

\* ma.sum(F, axis=0) at column x: masked elements are skipped; a column with
\* every element masked gives a masked sum.
RECURSIVE SumRows(_, _, _)
SumRows(F, x, y) ==
    IF y = 0 THEN RInt(0)
    ELSE RAdd(SumRows(F, x, y - 1),
              IF F[<<y, x>>].m THEN RInt(0) ELSE F[<<y, x>>].v)

MSum(F, x) == [v |-> SumRows(F, x, NY), m |-> \A y \in Rows : F[<<y, x>>].m]

\* extract.py:173: variance = (np.abs(data) + config.ron ** 2 / config.gain) / config.gain
InitVariance(d) ==
    RDiv(RAdd(RInt(Abs(d)), RDiv(RInt(config.ron * config.ron), RInt(config.gain))),
         RInt(config.gain))

\* extract.py:332: p_r[p_r < 0] = 0
ClipNone(fit) == [q \in Pix |-> M(RInt(fit[q]))]
Clip(fit) == [q \in Pix |-> M(RInt(IF fit[q] < 0 THEN 0 ELSE fit[q]))]

\* extract.py:333, 380: p_r = p_r / ma.sum(p_r, axis=0)
Normalise(P) == [q \in Pix |-> MDiv(P[q], MSum(P, q[2]))]

\* The terms of the two sums of extract.py:334, 381.
FluxNum(P, net, var) == [q \in Pix |-> MDiv(MMul(P[q], net[q]), var[q])]
FluxDen(P, var) == [q \in Pix |-> MDiv(MSq(P[q]), var[q])]

\* extract.py:334, 381: f = ma.sum(p_r * net_img / masked_var, axis=0)
\*                          / ma.sum(p_r ** 2 / masked_var, axis=0)
Flux(P, net, var) ==
    [x \in Cols |-> MDiv(MSum(FluxNum(P, net, var), x), MSum(FluxDen(P, var), x))]

\* extract.py:335, 382: f_by_p = f * p_r
FByP(fl, P) == [q \in Pix |-> MMul(fl[q[2]], P[q])]

\* extract.py:336, 383.
Variance(fbp, sky) ==
    [q \in Pix |-> MDiv(MAdd(MAbs(MAdd(fbp[q], sky[q])),
                             M(RDiv(RInt(config.ron * config.ron),
                                    RInt(config.gain)))),
                        M(RInt(config.gain)))]

\* extract.py:337, 384: residual = (net_img - f_by_p) ** 2 / masked_var
Residual(net, fbp, var) == [q \in Pix |-> MDiv(MSq(MSub(net[q], fbp[q])), var[q])]

\* residual.mask = <mask>, extract.py:338, 359, 385: the mask is replaced.
WithMask(R, mask) == [q \in Pix |-> [v |-> R[q].v, m |-> q \in mask]]

\* np.nonzero(residual > limit): the unmasked pixels above the limit; and a
\* version that compares with twice the limit.
AboveTwiceLimit(R, lim) == {q \in Pix : ~R[q].m /\ RGt(R[q].v, RInt(2 * lim))}
AboveLimit(R, lim) == {q \in Pix : ~R[q].m /\ RGt(R[q].v, RInt(lim))}

Unmasked(F) == {q \in Pix : ~F[q].m}

ZeroImg == [q \in Pix |-> M(RInt(0))]

ExIdle ==
    [phase |-> "idle", fitDropsMask |-> FALSE,
     y_data |-> [r \in SkyRows |-> 0], poly |-> [r \in SkyRows |-> 0],
     mask |-> {}, fit |-> [q \in Pix |-> 0],
     net_img |-> ZeroImg, masked_sky |-> ZeroImg, masked_var |-> ZeroImg,
     p_r |-> ZeroImg, f |-> [x \in Cols |-> M(RInt(0))], residual |-> ZeroImg,
     limit |-> 0, iter |-> 0,
     rejBefore |-> {}, fitUsed |-> {}, sumUsed |-> {}, crMasked |-> {}]

InitExtract == ex = ExIdle

\* _create_sky_image, extract.py:256-262, for one column: the sky rows of the
\* column, none rejected yet.  Whether Polynomial.fit leaves masked elements
\* out of the fit is the library's doing: both behaviours are covered.
sky_start(y, drops) ==
    /\ ex.phase = "idle"
    /\ ex' = [ExIdle EXCEPT !.phase = "sky", !.y_data = y, !.fitDropsMask = drops]
    /\ UNCHANGED <<reduceVars, configVars, laterVars>>

\* extract.py:267: residual = (y_data - poly(x_data)) ** 2 * y_weights, with
\* weights = 1.0 / masked_variance (extract.py:243).
SkyResidualQuarter(y, pv) == RDiv(RInt((y - pv) * (y - pv)), RMul(RInt(4), InitVariance(y)))
SkyResidual(y, pv) == RDiv(RInt((y - pv) * (y - pv)), InitVariance(y))

\* One pass of the sky rejection loop, extract.py:265-275, and, when nothing is
\* rejected, lines 277-278.  A fit of unchanged inputs gives the same polynomial.
sky_iter(poly) ==
    /\ ex.phase = "sky"
    /\ (ex.fitDropsMask /\ ex.iter > 0) => poly = ex.poly
    /\ LET rej == {r \in SkyRows \ ex.mask :
                     RGt(SkyResidual(ex.y_data[r], poly[r]), RInt(SkyLimit))} IN
       ex' = [ex EXCEPT
                !.poly = poly,
                !.iter = @ + 1,
                !.rejBefore = ex.mask,
                !.fitUsed = IF ex.fitDropsMask THEN SkyRows ELSE SkyRows \ ex.mask,
                !.sumUsed = {},
                !.mask = IF rej = {} THEN {} ELSE ex.mask \cup rej,
                !.phase = IF rej = {} THEN "sky_done" ELSE "sky"]
    /\ UNCHANGED <<reduceVars, configVars, laterVars>>

\* _extract_spectrum, extract.py:291-321, on the trace window of a frame.
extract_start(data, sky, drops) ==
    /\ ex.phase = "idle"
    /\ ex' = [ExIdle EXCEPT
                !.phase = "profile",
                !.fitDropsMask = drops,
                !.net_img = [q \in Pix |-> M(RInt(data[q] - sky))],
                !.masked_sky = [q \in Pix |-> M(RInt(sky))],
                !.masked_var = [q \in Pix |-> M(InitVariance(data[q]))]]
    /\ UNCHANGED <<reduceVars, configVars, laterVars>>

\* One pass of the profile loop, extract.py:324-345, and, when nothing is
\* rejected, lines 346 and 359.  fit holds poly(x) of the row fits of line 330-331.
profile_iter(fit) ==
    /\ ex.phase = "profile"
    /\ LET P == Normalise(Clip(fit))
           fl == Flux(P, ex.net_img, ex.masked_var)
           fbp == FByP(fl, P)
           var == Variance(fbp, ex.masked_sky)
           res == WithMask(Residual(ex.net_img, fbp, var), ex.mask)
           rej == AboveLimit(res, ProfileLimit)
       IN ex' = [ex EXCEPT
                   !.fit = fit,
                   !.iter = @ + 1,
                   !.p_r = P,
                   !.f = fl,
                   !.masked_var = var,
                   !.rejBefore = ex.mask,
                   !.fitUsed = IF ex.fitDropsMask THEN Pix ELSE Pix \ ex.mask,
                   !.sumUsed = Unmasked(FluxNum(P, ex.net_img, ex.masked_var)),
                   !.mask = IF rej = {} THEN {} ELSE ex.mask \cup rej,
                   !.residual = IF rej = {} THEN WithMask(res, {}) ELSE res,
                   !.phase = IF rej = {} THEN "escalate" ELSE "profile"]
    /\ UNCHANGED <<reduceVars, configVars, laterVars>>

\* extract.py:363, 365: len(rej_idx[0] > rej_cutoff) is the length of a boolean
\* array, the number of pixels above the limit, whatever rej_cutoff is.
EscalateTestIntended(rej) == Cardinality(rej) > rej_cutoff
EscalateTest(rej) == Cardinality(rej) > 0

\* extract.py:361-366: the limit is raised while the test holds.
RECURSIVE Escalate(_, _)
Escalate(R, lim) ==
    IF EscalateTest(AboveLimit(R, lim)) THEN Escalate(R, lim + LimitStep) ELSE lim

escalate ==
    /\ ex.phase = "escalate"
    /\ ex' = [ex EXCEPT !.limit = Escalate(ex.residual, InitialLimit),
                        !.rejBefore = {}, !.fitUsed = {}, !.sumUsed = {},
                        !.phase = "cosmic"]
    /\ UNCHANGED <<reduceVars, configVars, laterVars>>

\* extract.py:373-378: the first pixel, in row-major order, of maximal residual.
MaxPixel(R, rej) ==
    CHOOSE q \in rej :
        \A o \in rej \ {q} :
            \/ RGt(R[q].v, R[o].v)
            \/ /\ R[q].v = R[o].v
               /\ (q[1] < o[1] \/ (q[1] = o[1] /\ q[2] < o[2]))

\* One pass of the cosmic-ray loop, extract.py:368-385.
cosmic_iter ==
    /\ ex.phase = "cosmic"
    /\ LET rej == AboveLimit(ex.residual, ex.limit) IN
       IF rej = {}
       THEN ex' = [ex EXCEPT !.phase = "done"]
       ELSE LET qm == MaxPixel(ex.residual, rej)
                old == FByP(ex.f, ex.p_r)
                P == Normalise([ex.p_r EXCEPT ![qm].m = TRUE])
                fl == Flux(P, ex.net_img, ex.masked_var)
                fbp == FByP(fl, P)
                var == Variance(fbp, ex.masked_sky)
            IN ex' = [ex EXCEPT
                        !.iter = @ + 1,
                        !.p_r = P,
                        !.f = fl,
                        !.masked_var = var,
                        !.residual = WithMask(Residual(ex.net_img, fbp, var),
                                              Pix \ Unmasked(P)),
                        !.rejBefore = Pix \ Unmasked(ex.p_r),
                        !.sumUsed = Unmasked(FluxNum(P, ex.net_img, ex.masked_var)),
                        !.mask = Pix \ Unmasked(P),
                        !.crMasked = @ \cup
                            {<<qm, RGt(ex.net_img[qm].v, old[qm].v)>>}]
    /\ UNCHANGED <<reduceVars, configVars, laterVars>>

NextExtract ==
    \/ \E y \in [SkyRows -> DataVals], drops \in BOOLEAN : sky_start(y, drops)
    \/ \E poly \in [SkyRows -> SkyFitVals] : sky_iter(poly)
    \/ \E data \in [Pix -> DataVals], sky \in SkyVals, drops \in BOOLEAN :
          extract_start(data, sky, drops)
    \/ \E fit \in [Pix -> FitVals] : profile_iter(fit)
    \/ escalate
    \/ cosmic_iter

(***************************************************************************)
(* calib2.SpecSelector and calib2.CalibDialog: the table of calibration    *)
(* points.  Rows are numbered from 0 as in the source; entries[row + 1] is *)
(* the entry of grid row `row`.  A peak of the spectrum is named by its    *)
(* pixel; the peaks a click can find are more than 10 pixels apart.        *)
(***************************************************************************)
MaxPeaks == 4
NLines == 2
MaxPending == 1

\* wave_len of an entry without an assigned wavelength (None), and the '--' choice.
NoWave == 0
\* _find_next_choice_up / _find_last_choice_down returning (None, None).
NoneP == <<-1, -1>>

PeakPixels == {20 * k : k \in 1..MaxPeaks}
\* SpecSelector._load_lines: the reference wavelengths in increasing order.
Lines == [k \in 1..NLines |-> 4000 + 100 * k]
WaveLens == {Lines[k] : k \in 1..NLines}
\* SpecSelector._index_by_lambda: position of a wavelength in _choices_list.
index_by_lambda(w) == CHOOSE k \in 1..NLines : Lines[k] = w
\* self._choices_list[a:b]
Slice(a, b) == {Lines[k] : k \in {j \in 1..NLines : a <= j /\ j < b}}

SetMax(S) == CHOOSE x \in S : \A y \in S : y <= x
SetMin(S) == CHOOSE x \in S : \A y \in S : x <= y

get_wavelength(e, row) == IF Len(e) < row + 1 THEN NoWave ELSE e[row + 1].wave_len
num_valid(e) == Cardinality({r \in 1..Len(e) : e[r].wave_len # NoWave})

find_next_choice_up(e, peak, lambda_peak) ==
    IF peak = 0
    THEN IF lambda_peak = NoWave THEN <<0, 1>> ELSE NoneP
    ELSE LET S == {i \in 0..(peak - 1) : get_wavelength(e, i) # NoWave}
         IN IF S = {} THEN <<0, 1>>
            ELSE <<SetMax(S) + 1, index_by_lambda(get_wavelength(e, SetMax(S))) + 1>>

find_last_choice_down(e, peak, lambda_peak) ==
    IF peak = Len(e) - 1
    THEN IF lambda_peak = NoWave THEN <<peak + 1, NLines + 1>> ELSE NoneP
    ELSE LET S == {i \in (peak + 1)..(Len(e) - 1) : get_wavelength(e, i) # NoWave}
         IN IF S = {} THEN <<Len(e), NLines + 1>>
            ELSE <<SetMin(S), index_by_lambda(get_wavelength(e, SetMin(S)))>>

\* The choices _configure_row gives the editor of a row (without '--').
configure_row(e, row) ==
    Slice(find_next_choice_up(e, row, NoWave)[2], find_last_choice_down(e, row, NoWave)[2])

\* editor.SetParameters(choices) for row in range(a, b)
SetParameters(ed, a, b, choices) ==
    [r \in 1..Len(ed) |-> IF a <= r - 1 /\ r - 1 < b THEN choices ELSE ed[r]]

\* The nearest assigned neighbour below / above has a wavelength that the new
\* one contradicts (calib2.py:281-297).
VetoLowNever(e, peak_no, new_lambda) == FALSE
VetoLow(e, peak_no, new_lambda) ==
    LET S == {i \in 0..(peak_no - 1) : get_wavelength(e, i) # NoWave}
    IN S # {} /\ get_wavelength(e, SetMax(S)) > new_lambda
VetoHigh(e, peak_no, new_lambda) ==
    LET S == {i \in (peak_no + 1)..(Len(e) - 1) : get_wavelength(e, i) # NoWave}
    IN S # {} /\ get_wavelength(e, SetMin(S)) < new_lambda

\* SpecSelector.on_cell_changing: the editors after the handler and whether
\* it vetoed the change.
on_cell_changing(e, ed, peak_no, text) ==
    LET up == find_next_choice_up(e, peak_no, text)
        down == find_last_choice_down(e, peak_no, text)
    IN IF text = NoWave
       THEN [veto |-> FALSE, low |-> FALSE,
             editors |-> SetParameters(ed, up[1], down[1], Slice(up[2], down[2]))]
       ELSE LET ed1 == IF up # NoneP /\ up[1] # peak_no
                       THEN SetParameters(ed, up[1], peak_no,
                                          Slice(up[2], index_by_lambda(text)))
                       ELSE ed
                ed2 == IF down # NoneP
                       THEN SetParameters(ed1, peak_no + 1, down[1],
                                          Slice(index_by_lambda(text), down[2]))
                       ELSE ed1
            IN [veto |-> VetoLow(e, peak_no, text) \/ VetoHigh(e, peak_no, text),
                low |-> VetoLow(e, peak_no, text),
                editors |-> ed2]

\* CalibDialog._num_valid_changed: the button and the degree control.
num_valid_changed(e) ==
    LET nv == num_valid(e)
        max_degree == IF nv > 2 THEN (IF nv - 2 > 4 THEN 4 ELSE nv - 2) ELSE 1
    IN /\ calcEnabled' = (nv > 2)
       /\ degree' = [max |-> max_degree,
                     value |-> IF max_degree < degree.value THEN max_degree
                               ELSE degree.value]

InitCalib ==
    /\ entries = <<>>
    /\ editors = <<>>
    /\ selected = 0
    /\ degree = [max |-> 1, value |-> 1]
    /\ calcEnabled = FALSE
    /\ pendingNVC = 0
    /\ lastFit = [n |-> 0, deg |-> 0]
    /\ calTick = 0
    /\ calOutcome = "none"

\* The user picks `text` in the choice editor of a row: EVT_GRID_CELL_CHANGING
\* (SpecSelector.on_cell_changing), and unless vetoed EVT_GRID_CELL_CHANGED
\* (CalibDialog._on_cell_changed).
cell_edit(row, text) ==
    /\ row < Len(entries)
    /\ text \in editors[row + 1] \cup {NoWave}
    /\ text # entries[row + 1].wave_len
    /\ LET r == on_cell_changing(entries, editors, row, text)
           e2 == [entries EXCEPT ![row + 1].wave_len = text]
       IN /\ editors' = r.editors
          /\ calTick' = 1 - calTick
          /\ IF r.veto
             THEN /\ calOutcome' = IF r.low THEN "veto_low" ELSE "veto_high"
                  /\ UNCHANGED <<entries, degree, calcEnabled>>
             ELSE /\ calOutcome' = "applied"
                  /\ entries' = e2
                  /\ num_valid_changed(e2)
    /\ UNCHANGED <<selected, pendingNVC, lastFit>>
    /\ UNCHANGED <<reduceVars, configVars, extractVars, darkVars, boundsVars, moreVars>>

\* SpecSelector._on_click near an entry that was not the selected one.
on_click_select(row) ==
    /\ row < Len(entries)
    /\ entries[row + 1].pixel # selected
    /\ selected' = entries[row + 1].pixel
    /\ UNCHANGED <<entries, editors, degree, calcEnabled, pendingNVC, lastFit,
                   calTick, calOutcome>>
    /\ UNCHANGED <<reduceVars, configVars, extractVars, darkVars, boundsVars, moreVars>>

\* SpecSelector._on_click on the selected entry, or where no peak is found.
on_click_deselect ==
    /\ selected # 0
    /\ selected' = 0
    /\ UNCHANGED <<entries, editors, degree, calcEnabled, pendingNVC, lastFit,
                   calTick, calOutcome>>
    /\ UNCHANGED <<reduceVars, configVars, extractVars, darkVars, boundsVars, moreVars>>

\* SpecSelector._on_click finding a new peak at pixel p (calib2.py:158-181).
on_click_insert(p) ==
    /\ \A r \in 1..Len(entries) : entries[r].pixel # p
    /\ LET new_entry == [pixel |-> p, wave_len |-> NoWave]
           before == {r \in 1..Len(entries) : entries[r].pixel < p}
           entry_row == Cardinality(before)
           e2 == [r \in 1..(Len(entries) + 1) |->
                    IF r <= entry_row THEN entries[r]
                    ELSE IF r = entry_row + 1 THEN new_entry
                    ELSE entries[r - 1]]
       IN /\ entries' = e2
          /\ editors' = [r \in 1..Len(e2) |->
                           IF r <= entry_row THEN editors[r]
                           ELSE configure_row(e2, r - 1)]
          /\ selected' = p
    /\ UNCHANGED <<degree, calcEnabled, pendingNVC, lastFit, calTick, calOutcome>>
    /\ UNCHANGED <<reduceVars, configVars, extractVars, darkVars, boundsVars, moreVars>>

\* SpecSelector._on_key with 'delete' or 'backspace' (calib2.py:308-341).
on_key ==
    /\ selected # 0
    /\ LET deleted_row == CHOOSE r \in 1..Len(entries) : entries[r].pixel = selected
           e2 == [r \in 1..(Len(entries) - 1) |->
                    IF r < deleted_row THEN entries[r] ELSE entries[r + 1]]
           changed == num_valid(e2) # num_valid(entries)
       IN /\ changed => pendingNVC < MaxPending
          /\ entries' = e2
          /\ editors' = [r \in 1..Len(e2) |-> configure_row(e2, r - 1)]
          /\ pendingNVC' = IF changed THEN pendingNVC + 1 ELSE pendingNVC
    /\ selected' = 0
    /\ UNCHANGED <<degree, calcEnabled, lastFit, calTick, calOutcome>>
    /\ UNCHANGED <<reduceVars, configVars, extractVars, darkVars, boundsVars, moreVars>>

\* The queued NumValidChgEvent reaches CalibDialog._num_valid_changed.
on_num_valid_chg ==
    /\ pendingNVC > 0
    /\ pendingNVC' = pendingNVC - 1
    /\ num_valid_changed(entries)
    /\ UNCHANGED <<entries, editors, selected, lastFit, calTick, calOutcome>>
    /\ UNCHANGED <<reduceVars, configVars, extractVars, darkVars, boundsVars, moreVars>>

\* The user changes the wx.SpinCtrl of the degree within its range.
spin_degree(d) ==
    /\ d \in 1..degree.max
    /\ d # degree.value
    /\ degree' = [degree EXCEPT !.value = d]
    /\ UNCHANGED <<entries, editors, selected, calcEnabled, pendingNVC, lastFit,
                   calTick, calOutcome>>
    /\ UNCHANGED <<reduceVars, configVars, extractVars, darkVars, boundsVars, moreVars>>

\* CalibDialog._on_calc_btn: only an enabled button sends EVT_BUTTON.
on_calc_btn ==
    /\ calcEnabled
    /\ lastFit' = [n |-> num_valid(entries), deg |-> degree.value]
    /\ UNCHANGED <<entries, editors, selected, degree, calcEnabled, pendingNVC,
                   calTick, calOutcome>>
    /\ UNCHANGED <<reduceVars, configVars, extractVars, darkVars, boundsVars, moreVars>>

NextCalib ==
    \/ \E row \in 0..(MaxPeaks - 1), text \in WaveLens \cup {NoWave} : cell_edit(row, text)
    \/ \E row \in 0..(MaxPeaks - 1) : on_click_select(row)
    \/ on_click_deselect
    \/ \E p \in PeakPixels : on_click_insert(p)
    \/ on_key
    \/ on_num_valid_chg
    \/ \E d \in 1..4 : spin_degree(d)
    \/ on_calc_btn

(***************************************************************************)
(* dark.Dark: the dark correction of one frame after the other.  A frame   *)
(* is a function from its pixels to values; corrected values are exact     *)
(* rationals <<numerator, denominator>>.                                   *)
(***************************************************************************)
NPixD == 2
NumFilesD == 2

PixD == 1..NPixD
RawVals == {0, 6, 20}
DarkVals == {3, 9}
BiasVals == {1, 2}
\* EXPTIME of the dark files and of the input files.
DarkTimes == {2, 6}
FrameTimes == {1, 2, 3, 7}
\* None, for delta, last_cand_time and the result of _pick_dark.
NoneT == -1

DkLast == [path |-> "none", exp_time |-> 0, picked |-> NoneT,
           raw |-> [q \in PixD |-> 0],
           corrected |-> [q \in PixD |-> <<0, 1>>],
           out |-> [q \in PixD |-> <<0, 1>>],
           logged |-> "none"]

InitDark ==
    dk = [phase |-> "new", hasBias |-> FALSE, bias |-> [q \in PixD |-> 0],
          darks |-> <<>>, pos |-> 0, nWritten |-> 0, last |-> DkLast]

\* sorted(self._darks_by_exposure.keys())
RECURSIVE sorted(_)
sorted(S) == IF S = {} THEN <<>>
             ELSE LET x == CHOOSE x \in S : \A y \in S : x <= y
                  IN <<x>> \o sorted(S \ {x})

\* The loop of Dark._pick_dark from candidate i on; the result is
\* last_cand_time.
RECURSIVE pick_loop(_, _, _, _, _)
pick_loop(cands, i, exp_time, delta, last_cand_time) ==
    IF i > Len(cands) THEN last_cand_time
    ELSE IF cands[i] < exp_time
         THEN pick_loop(cands, i + 1, exp_time, delta, last_cand_time)
         ELSE LET new_delta == Abs(exp_time - cands[i])
              IN IF delta # NoneT /\ new_delta > delta
                 THEN IF last_cand_time = NoneT THEN cands[i] ELSE last_cand_time
                 ELSE pick_loop(cands, i + 1, exp_time, new_delta, cands[i])

\* A selection that takes the candidate closest to exp_time on either side.
pick_dark_closest(times, exp_time) ==
    IF times = {} THEN NoneT
    ELSE CHOOSE c \in times :
            \A d \in times : Abs(exp_time - c) < Abs(exp_time - d)
                             \/ (Abs(exp_time - c) = Abs(exp_time - d) /\ c >= d)
\* Dark._pick_dark: the exposure time of the dark it returns, NoneT for None.
pick_dark(times, exp_time) == pick_loop(sorted(times), 1, exp_time, NoneT, NoneT)

\* Dark._correct_direct, and a version that subtracts the dark twice.
correct_direct_twice(in_data, dark_data) ==
    [q \in PixD |-> RSub(RInt(in_data[q]), RInt(2 * dark_data[q]))]
correct_direct(in_data, dark_data) ==
    [q \in PixD |-> RSub(RInt(in_data[q]), RInt(dark_data[q]))]

\* scale of Dark._correct_scaled, and a scale with the quotient inverted.
scale_inverted(exp_time, dark_time) == RDiv(RInt(dark_time), RInt(exp_time))
scale(exp_time, dark_time) == RDiv(RInt(exp_time), RInt(dark_time))

\* Dark._correct_scaled with a bias frame and the dark _pick_dark returned.
correct_scaled(in_data, bias_data, dark_raw, exp_time, dark_time) ==
    [q \in PixD |->
        LET dark_data == RMul(RSub(RInt(dark_raw[q]), RInt(bias_data[q])),
                              scale(exp_time, dark_time))
        IN RSub(RSub(RInt(in_data[q]), dark_data), RInt(bias_data[q]))]

\* Dark._correct_scaled with a bias frame and no dark, and a version that
\* subtracts nothing.
correct_bias_never(in_data, bias_data) == [q \in PixD |-> RInt(in_data[q])]
correct_bias_only(in_data, bias_data) ==
    [q \in PixD |-> RSub(RInt(in_data[q]), RInt(bias_data[q]))]

\* corrected_data[corrected_data < 0] = 0, and a version that keeps the data.
clamp_none(data) == data
clamp(data) == [q \in PixD |-> IF data[q][1] < 0 THEN <<0, 1>> ELSE data[q]]

\* Dark.__init__: the bias path and the darks by exposure time.
dark_new(hasBias, bias, darks) ==
    /\ dk.phase = "new"
    \* without a bias file there is no bias frame to tell apart
    /\ hasBias \/ bias = [q \in PixD |-> 1]
    /\ dk' = [dk EXCEPT !.phase = "loop", !.hasBias = hasBias, !.bias = bias,
                        !.darks = darks]
    /\ UNCHANGED <<reduceVars, configVars, extractVars, calibVars, boundsVars, moreVars>>

\* One pass of the loop of Dark.correct (dark.py:37-60) for an input file
\* with data in_data and header EXPTIME exp_time (has_exptime: the header
\* holds the keyword).
correct_file(in_data, exp_time, has_exptime) ==
    /\ dk.phase = "loop"
    /\ dk.pos < NumFilesD
    \* a file without EXPTIME is skipped whatever it holds
    /\ has_exptime \/ (exp_time = 1 /\ in_data = [q \in PixD |-> 0])
    /\ LET times == DOMAIN dk.darks
           picked == IF exp_time \in times THEN exp_time
                     ELSE IF dk.hasBias THEN pick_dark(times, exp_time)
                     ELSE NoneT
           path == IF ~has_exptime THEN "skipped"
                   ELSE IF exp_time \in times THEN "direct"
                   ELSE IF ~dk.hasBias THEN "noop"
                   ELSE IF picked # NoneT THEN "scaled"
                   ELSE "bias_only"
           corrected ==
               IF path = "direct" THEN correct_direct(in_data, dk.darks[exp_time])
               ELSE IF path = "noop" THEN [q \in PixD |-> RInt(in_data[q])]
               ELSE IF path = "scaled"
                    THEN correct_scaled(in_data, dk.bias, dk.darks[picked],
                                        exp_time, picked)
               ELSE correct_bias_only(in_data, dk.bias)
       IN IF path = "skipped"
          THEN dk' = [dk EXCEPT !.pos = @ + 1,
                                !.last = [DkLast EXCEPT !.path = "skipped"]]
          ELSE dk' = [dk EXCEPT
                        !.pos = @ + 1,
                        !.nWritten = @ + 1,
                        !.last = [path |-> path, exp_time |-> exp_time,
                                  picked |-> IF path = "scaled" THEN picked ELSE NoneT,
                                  raw |-> in_data,
                                  corrected |-> corrected,
                                  out |-> clamp(corrected),
                                  logged |-> IF path = "noop" THEN "no bias file"
                                             ELSE IF path = "bias_only"
                                                  THEN "no suitable dark"
                                             ELSE path]]
    /\ UNCHANGED <<reduceVars, configVars, extractVars, calibVars, boundsVars, moreVars>>

\* Dark.correct after its loop (dark.py:62-63).
correct_end ==
    /\ dk.phase = "loop"
    /\ dk.pos = NumFilesD
    /\ dk' = [dk EXCEPT !.phase = "done"]
    /\ UNCHANGED <<reduceVars, configVars, extractVars, calibVars, boundsVars, moreVars>>

NextDark ==
    \/ \E hasBias \in BOOLEAN, bias \in [PixD -> BiasVals], T \in SUBSET DarkTimes :
          \E darks \in [T -> [PixD -> DarkVals]] :
             dark_new(hasBias, bias, darks)
    \/ \E in_data \in [PixD -> RawVals], exp_time \in FrameTimes, has_exptime \in BOOLEAN :
          correct_file(in_data, exp_time, has_exptime)
    \/ correct_end

(***************************************************************************)
(* extract.optimal over its input frames, with _optimal and                *)
(* _find_image_bounds.  find_peaks and curve_fit are inputs: no peak, no   *)
(* convergence, or fitted parameters popt; popt[2] is the centre and       *)
(* popt[3] the width of the Gaussian, exact rationals here.                *)
(***************************************************************************)
NumFrames == 2
\* data.shape[0] of the frames
FrameRows == 100

\* Values curve_fit can return.  The model function depends on the width
\* through its square only, so a fit can end on either sign of the width.
Centres == {<<0, 1>>, <<7, 2>>, <<40, 1>>, <<95, 1>>}
Widths == {<<-2, 1>>, <<-1, 3>>, <<1, 3>>, <<2, 1>>, <<7, 2>>}

\* int(): truncation toward zero.
int(r) == IF r[1] >= 0 THEN r[1] \div r[2] ELSE -((-r[1]) \div r[2])

NoBounds == [data_low |-> 0, data_high |-> 0, sky_low |-> 0, sky_high |-> 0]

\* The ImageBounds _find_image_bounds returns for fitted parameters
\* (extract.py:222-234).
ImageBounds(c, d) ==
    [data_low |-> int(RSub(c, RMul(RInt(5), d))),
     data_high |-> int(RAdd(c, RMul(RInt(5), d))),
     sky_low |-> int(RSub(c, RMul(RInt(8), d))),
     sky_high |-> int(RAdd(c, RMul(RInt(8), d)))]

InitBounds ==
    ob = [phase |-> "idle", i |-> 0, spectra |-> 0, failed |-> 0, logged |-> 0,
          found |-> FALSE, bounds |-> NoBounds, width |-> <<0, 1>>,
          d_low |-> FrameRows, d_high |-> 0, result |-> "none"]

\* optimal() is called (extract.py:65-79).
optimal_start ==
    /\ ob.phase = "idle"
    /\ ob' = [ob EXCEPT !.phase = "loop"]
    /\ UNCHANGED <<reduceVars, configVars, extractVars, calibVars, darkVars, moreVars>>

\* One pass of the loop of optimal() (extract.py:79-101) for a frame whose
\* bounds detection ends with `outcome`; callback returning True ends it.
optimal_frame(cancelled, outcome, c, d) ==
    /\ ob.phase = "loop"
    /\ ob.i < NumFrames
    /\ IF cancelled
       THEN ob' = [ob EXCEPT !.phase = "returned", !.result = "none"]
       ELSE IF outcome \in {"no_signal", "runtime_error"}
            \* _find_image_bounds logs and returns None, _optimal returns
            \* (None, None, None), and line 96 subscripts None.
            THEN ob' = [ob EXCEPT !.phase = "raised", !.failed = @ + 1,
                                  !.logged = @ + 1, !.found = FALSE,
                                  !.bounds = NoBounds]
            ELSE LET b == ImageBounds(c, d)
                 IN ob' = [ob EXCEPT
                             !.i = @ + 1, !.spectra = @ + 1,
                             !.found = TRUE, !.width = d, !.bounds = b,
                             !.d_low = IF b.data_low < @ THEN b.data_low ELSE @,
                             !.d_high = IF b.data_high > @ THEN b.data_high ELSE @]
    /\ UNCHANGED <<reduceVars, configVars, extractVars, calibVars, darkVars, moreVars>>

\* optimal() after its loop (extract.py:103-149).
optimal_end ==
    /\ ob.phase = "loop"
    /\ ob.i = NumFrames
    /\ ob' = [ob EXCEPT !.phase = "returned",
                        !.result = IF ob.spectra = 0 THEN "none" ELSE "written"]
    /\ UNCHANGED <<reduceVars, configVars, extractVars, calibVars, darkVars, moreVars>>

NextBounds ==
    \/ optimal_start
    \/ \E cancelled \in BOOLEAN, outcome \in {"no_signal", "runtime_error", "fit"},
          c \in Centres, d \in Widths :
          optimal_frame(cancelled, outcome, c, d)
    \/ optimal_end

(***************************************************************************)
(* slant.Slant.  find_peaks is an input: per row of the calibration image  *)
(* the columns of its peaks.  Polynomial.fit is an input too: one of a few *)
(* polynomials c0 + c1*y + c2*y^2 with rational coefficients.  A frame is  *)
(* a function from rows to functions from columns to values.              *)
(***************************************************************************)
NRowsS == 6
WidthS == 24
NumFilesS == 1
\* _find_next_peak returning -1.0
NoPeak == -1

RowsS == 0..(NRowsS - 1)
ColsS == 0..(WidthS - 1)
PeakChoices == {{}, {11}, {11, 14}}
FitChoices == {<<RInt(0), Rat(1, 2), RInt(0)>>, <<Rat(5, 2), Rat(-1, 2), RInt(0)>>,
               <<RInt(0), RInt(-1), Rat(1, 4)>>, <<RInt(0), RInt(0), RInt(0)>>}
FrameS(b) == [y \in RowsS |-> [x \in ColsS |-> ((b + 7 * x + 3 * y) % 11) + 1]]
FrameBases == {0, 4}
NoFit == <<>>

floor(r) == r[1] \div r[2]
ceil(r) == -((-r[1]) \div r[2])

\* self._fit(y)
fit_at(f, y) == RAdd(f[1], RAdd(RMul(f[2], RInt(y)), RMul(f[3], RInt(y * y))))

\* _find_next_peak: the peak nearest to x_ref, the lower one of two equally
\* near, or -1.0 without a peak.
find_next_peak(x_ref, peaks) ==
    IF peaks = {} THEN NoPeak
    ELSE CHOOSE x \in peaks : \A o \in peaks :
            \/ Abs(x - x_ref) < Abs(o - x_ref)
            \/ Abs(x - x_ref) = Abs(o - x_ref) /\ x <= o

\* The loop at slant.py:50-53: a row without a peak has none for any x_cent.
peak_cent(peaks) ==
    IF WidthS \div 2 < WidthS - 10
    THEN find_next_peak(WidthS \div 2, peaks[NRowsS \div 2])
    ELSE NoPeak

\* y_hi of the loop at slant.py:59-64, started at row y after peak x_prev.
RECURSIVE track_up(_, _, _)
track_up(peaks, y, x_prev) ==
    IF y > NRowsS - 1 THEN y - 1
    ELSE LET x == find_next_peak(x_prev, peaks[y])
         IN IF x = NoPeak THEN y - 1 ELSE track_up(peaks, y + 1, x)

\* y_lo of the loop at slant.py:66-71.
RECURSIVE track_down(_, _, _)
track_down(peaks, y, x_prev) ==
    IF y < 0 THEN y + 1
    ELSE LET x == find_next_peak(x_prev, peaks[y])
         IN IF x = NoPeak THEN y + 1 ELSE track_down(peaks, y - 1, x)

TooFewLoose(y_lo, y_hi) == y_hi - y_lo < 3
TooFew(y_lo, y_hi) == y_hi - y_lo < 4

\* in_row[i]: a negative index counts from the end of the row.
row_at(in_row, i) == IF i < 0 THEN in_row[WidthS + i] ELSE in_row[i]

\* One pass of the loop of _move_row: the value of out_row[x_target].
move_pixel(in_row, offset, x_0, x_target) ==
    LET s == RAdd(RInt(x_0 + x_target), offset)
        x_src0 == floor(s)
        x_src1 == ceil(s)
    IN IF x_src1 >= WidthS \/ x_src0 > WidthS
       THEN RInt(0)
       ELSE LET w_0 == RSub(RInt(1), RSub(s, RInt(x_src0)))
                w_1 == RSub(RInt(1), RSub(RInt(x_src1), s))
            IN RAdd(RMul(w_0, RInt(row_at(in_row, x_src0))),
                    RMul(w_1, RInt(row_at(in_row, x_src1))))

\* in_row[x_src0] raises IndexError.
move_raises(offset, x_0, x_target) ==
    LET s == RAdd(RInt(x_0 + x_target), offset)
    IN ceil(s) < WidthS /\ floor(s) < -WidthS

SlIdle == [phase |-> "new", peaks |-> [y \in RowsS |-> {}], fit |-> NoFit,
           y_lo |-> 0, y_hi |-> 0, has_x_0 |-> FALSE, x_0 |-> 0, dim_x |-> 0,
           n |-> 0, base |-> 0, out |-> <<>>, raised |-> "no"]

InitSlant == sl = SlIdle

\* Slant.__init__ on a calibration image with these peaks.
Slant_init(peaks, f) ==
    /\ sl.phase = "new"
    /\ LET x_c == peak_cent(peaks)
           y_cent == NRowsS \div 2
           y_hi == track_up(peaks, y_cent + 1, x_c)
           y_lo == track_down(peaks, y_cent - 1, x_c)
           x_off_0 == fit_at(f, 0)
           x_off_1 == fit_at(f, NRowsS - 1)
       IN IF x_c = NoPeak
          THEN /\ f = CHOOSE g \in FitChoices : TRUE
               /\ sl' = [sl EXCEPT !.phase = "ready", !.peaks = peaks]
          ELSE IF TooFew(y_lo, y_hi)
          THEN /\ f = CHOOSE g \in FitChoices : TRUE
               /\ sl' = [sl EXCEPT !.phase = "ready", !.peaks = peaks,
                                   !.y_lo = y_lo, !.y_hi = y_hi]
          ELSE sl' = [sl EXCEPT !.phase = "ready", !.peaks = peaks, !.fit = f,
                         !.y_lo = y_lo, !.y_hi = y_hi,
                         !.has_x_0 = (x_off_0 # x_off_1),
                         !.x_0 = IF RGt(x_off_0, x_off_1) THEN -floor(x_off_1)
                                 ELSE IF RGt(x_off_1, x_off_0) THEN -floor(x_off_0)
                                 ELSE 0,
                         !.dim_x = IF RGt(x_off_0, x_off_1)
                                   THEN WidthS + floor(x_off_1) - ceil(x_off_0)
                                   ELSE IF RGt(x_off_1, x_off_0)
                                   THEN WidthS - ceil(x_off_1) + floor(x_off_0)
                                   ELSE 0]
    /\ UNCHANGED <<oldVars, rt, sv, nm, rr>>

\* One pass of the loop of Slant.apply, on the frame FrameS(b).
apply_file(b) ==
    /\ sl.phase = "ready"
    /\ sl.raised = "no"
    /\ sl.n < NumFilesS
    /\ LET data == FrameS(b)
       IN IF sl.fit = NoFit
          THEN sl' = [sl EXCEPT !.n = @ + 1, !.base = b,
                         !.out = [y \in RowsS |-> [x \in ColsS |-> RInt(data[y][x])]]]
          ELSE IF ~sl.has_x_0
          THEN sl' = [sl EXCEPT !.base = b, !.raised = "AttributeError"]
          ELSE IF \E y \in RowsS, t \in 0..(sl.dim_x - 1) :
                     move_raises(fit_at(sl.fit, y), sl.x_0, t)
          THEN sl' = [sl EXCEPT !.base = b, !.raised = "IndexError"]
          ELSE sl' = [sl EXCEPT !.n = @ + 1, !.base = b,
                         !.out = [y \in RowsS |-> [t \in 0..(sl.dim_x - 1) |->
                                   move_pixel(data[y], fit_at(sl.fit, y), sl.x_0, t)]]]
    /\ UNCHANGED <<oldVars, rt, sv, nm, rr>>

NextSlant ==
    \/ \E peaks \in [RowsS -> PeakChoices], f \in FitChoices : Slant_init(peaks, f)
    \/ \E b \in FrameBases : apply_file(b)

(***************************************************************************)
(* rotate.Rotate.  The image is given by its width and its two sample      *)
(* columns; a column is a function from rows to values.  The angle         *)
(* degrees(asin(dy / sqrt(dx^2 + dy^2))) is kept as its tangent dy / dx.   *)
(***************************************************************************)
NRowsR == 10
NumFilesR == 1
XDims == {3, 8}
SpikeRows == {2, 5, 7}
SpikeHeights == 0..2
RowsR == 0..(NRowsR - 1)
\* A column with a spike of height h[r] at each of the SpikeRows.
ColumnR(h) == [r \in RowsR |-> IF r \in SpikeRows THEN h[r] ELSE 0]
ColumnsR == {ColumnR(h) : h \in [SpikeRows -> SpikeHeights]}

\* scipy.signal.find_peaks(column, distance=min_dist): the samples greater
\* than both neighbours.  The spikes of the columns here are more than
\* min_dist = int(NRowsR / 10) rows apart, so the distance removes none.
find_peaks(column) ==
    {i \in 1..(NRowsR - 2) : column[i - 1] < column[i] /\ column[i] > column[i + 1]}

\* rotate._find_peak: the first of the highest peaks; NoPeak stands
\* for the None it returns without a peak.
find_peak(column) ==
    LET peaks == find_peaks(column)
    IN IF peaks = {} THEN NoPeak
       ELSE CHOOSE i \in peaks : \A o \in peaks :
               column[i] > column[o] \/ (column[i] = column[o] /\ i <= o)

RtIdle == [phase |-> "new", x_dim |-> 0, low |-> ColumnR([r \in SpikeRows |-> 0]),
           high |-> ColumnR([r \in SpikeRows |-> 0]), angle |-> RInt(0),
           raised |-> "no", n |-> 0, out |-> "none"]

InitRotate == rt = RtIdle

\* Rotate.__init__ on an image x_dim wide with these columns at x_low, x_hi.
Rotate_init(x_dim, low, high) ==
    /\ rt.phase = "new"
    /\ LET x_low == x_dim \div 4
           x_hi == x_low * 3
           peak_low == find_peak(low)
           peak_hi == find_peak(high)
       IN /\ x_low = x_hi => low = high
          /\ IF peak_low = NoPeak \/ peak_hi = NoPeak
             THEN rt' = [rt EXCEPT !.phase = "raised", !.x_dim = x_dim, !.low = low,
                            !.high = high, !.raised = "TypeError"]
             ELSE IF x_hi = x_low /\ peak_hi = peak_low
             THEN rt' = [rt EXCEPT !.phase = "raised", !.x_dim = x_dim, !.low = low,
                            !.high = high, !.raised = "ZeroDivisionError"]
             ELSE rt' = [rt EXCEPT !.phase = "ready", !.x_dim = x_dim, !.low = low,
                            !.high = high,
                            !.angle = Rat(peak_hi - peak_low, x_hi - x_low)]
    /\ UNCHANGED <<oldVars, sl, sv, nm, rr>>

\* Rotate._do_rotate on one file: scipy.ndimage.rotate by self._angle.
do_rotate ==
    /\ rt.phase = "ready"
    /\ rt.n < NumFilesR
    /\ rt' = [rt EXCEPT !.n = @ + 1,
                 !.out = IF rt.angle = RInt(0) THEN "unrotated" ELSE "rotated"]
    /\ UNCHANGED <<oldVars, sl, sv, nm, rr>>

NextRotate ==
    \/ \E x_dim \in XDims, low \in ColumnsR, high \in ColumnsR :
          Rotate_init(x_dim, low, high)
    \/ do_rotate

(***************************************************************************)
(* specview: the readers of the header of a one-dimensional spectrum.      *)
(* Header values are exact rationals <<numerator, denominator>>.           *)
(***************************************************************************)
MaxSize == 3
CRPIX1s == {RInt(1), RInt(2), Rat(3, 2)}
CRVAL1s == {RInt(4000), RInt(5000)}
CDELT1s == {RInt(1), RInt(2), Rat(1, 2)}
NoHeader == [wcs |-> FALSE, CRPIX1 |-> RInt(0), CRVAL1 |-> RInt(0), CDELT1 |-> RInt(0)]
Headers == {NoHeader} \cup
           {[wcs |-> TRUE, CRPIX1 |-> p, CRVAL1 |-> v, CDELT1 |-> d] :
               p \in CRPIX1s, v \in CRVAL1s, d \in CDELT1s}

\* np.linspace(start, stop, num): element i is start + i * step with
\* step = (stop - start) / (num - 1).
linspace(start, stop, num) ==
    [i \in 0..(num - 1) |->
        IF num = 1 THEN start
        ELSE RAdd(start, RMul(RInt(i), RDiv(RSub(stop, start), RInt(num - 1))))]
\* np.arange(num)
arange(num) == [i \in 0..(num - 1) |-> RInt(i)]

SvIdle == [phase |-> "new", header |-> NoHeader, size |-> 0,
           view |-> <<>>, fit |-> <<>>, lambda_start |-> RInt(0),
           lambda_step |-> RInt(0), done |-> {}]

InitView == sv = SvIdle

\* A spectrum of `size` samples with this header is loaded.
load_spectrum(header, size) ==
    /\ sv.phase = "new"
    /\ sv' = [sv EXCEPT !.phase = "loaded", !.header = header, !.size = size]
    /\ UNCHANGED <<oldVars, sl, rt, nm, rr>>

\* Specview.add_spectrum: the xdata it plots (specview.py:630-638).
add_spectrum ==
    /\ sv.phase = "loaded"
    /\ "add_spectrum" \notin sv.done
    /\ LET header == sv.header
           lambda_step == header.CDELT1
           lambda_ref == RAdd(header.CRVAL1,
                              RMul(RSub(header.CRPIX1, RInt(1)), lambda_step))
       IN sv' = [sv EXCEPT !.done = @ \cup {"add_spectrum"},
                    !.view = IF header.wcs
                             THEN linspace(lambda_ref,
                                           RAdd(lambda_ref, RMul(RInt(sv.size - 1), lambda_step)),
                                           sv.size)
                             ELSE arange(sv.size)]
    /\ UNCHANGED <<oldVars, sl, rt, nm, rr>>

\* ContinuumFit.init: self._xdata (specview.py:168-174).
ContinuumFit_init ==
    /\ sv.phase = "loaded"
    /\ "ContinuumFit" \notin sv.done
    /\ LET header == sv.header
           lambda_step == header.CDELT1
           lambda_ref == RAdd(header.CRVAL1,
                              RMul(RSub(RInt(1), header.CRPIX1), lambda_step))
           lambda_end == RAdd(lambda_ref, RMul(RInt(sv.size - 1), lambda_step))
       IN sv' = [sv EXCEPT !.done = @ \cup {"ContinuumFit"},
                    !.fit = IF ~header.wcs THEN arange(sv.size)
                            ELSE linspace(lambda_ref, lambda_end, sv.size)]
    /\ UNCHANGED <<oldVars, sl, rt, nm, rr>>

\* PeakMeasureHandler.set_data (specview.py:344-352).
set_data ==
    /\ sv.phase = "loaded"
    /\ "PeakMeasureHandler" \notin sv.done
    /\ LET header == sv.header
       IN sv' = [sv EXCEPT !.done = @ \cup {"PeakMeasureHandler"},
                    !.lambda_step = IF header.wcs THEN header.CDELT1 ELSE RInt(1),
                    !.lambda_start =
                        IF header.wcs
                        THEN RAdd(header.CRVAL1,
                                  RSub(RInt(1), RMul(header.CRPIX1, header.CDELT1)))
                        ELSE RInt(0)]
    /\ UNCHANGED <<oldVars, sl, rt, nm, rr>>

NextView ==
    \/ \E header \in Headers, size \in 2..MaxSize : load_spectrum(header, size)
    \/ add_spectrum
    \/ ContinuumFit_init
    \/ set_data

(***************************************************************************)
(* extract.optimal: the names of the files it writes (extract.py:106-149), *)
(* when every frame gave a spectrum.  A file name is [stem, suffix], the   *)
(* stem a sequence of characters.                                          *)
(***************************************************************************)
NumFilesN == 2
Stems == {<<"a">>, <<"b">>, <<"a", "b">>, <<"a", "c">>, <<"a", "b", "c">>}
Suffixes == {".fits", ""}
FileNames == {[stem |-> s, suffix |-> x] : s \in Stems, x \in Suffixes}
FileLists == UNION {[1..n -> FileNames] : n \in 1..NumFilesN}
\* 'optimal-1d' as a name without a suffix.
default_name == [stem |-> <<"optimal-1d">>, suffix |-> ""]
IndexError == [stem |-> <<"IndexError">>, suffix |-> ""]

MinN(a, b) == IF a < b THEN a ELSE b

\* extract._get_common_name; IndexError when stem[common_idx] is past the
\* end of a stem.  Sequences are indexed from 1, common_idx from 0.
get_common_name(files, default) ==
    IF Len(files) = 1 THEN files[1]
    ELSE LET s0 == files[1].stem
             s1 == files[2].stem
             min_len == MinN(Len(s0), Len(s1))
             diff == {i \in 0..(min_len - 1) : s0[i + 1] # s1[i + 1]}
         IN IF diff = {} THEN IndexError
            ELSE LET common_idx == CHOOSE i \in diff : \A o \in diff : i <= o
                 IN [stem |-> IF common_idx = 0 THEN default.stem
                              ELSE SubSeq(s0, 1, common_idx),
                     suffix |-> files[1].suffix]

NmIdle == [phase |-> "new", files |-> <<>>, written |-> {}, kind |-> "none",
           raised |-> "no"]

InitName == nm = NmIdle

\* optimal() is called with these input files.
optimal_files(files) ==
    /\ nm.phase = "new"
    /\ nm' = [nm EXCEPT !.phase = "extracted", !.files = files]
    /\ UNCHANGED <<oldVars, sl, rt, sv, rr>>

\* extract.py:106-149: the averaged spectrum or one spectrum per file.
optimal_name_and_write ==
    /\ nm.phase = "extracted"
    /\ LET out_name == get_common_name(nm.files, default_name)
       IN IF out_name = IndexError
          THEN nm' = [nm EXCEPT !.phase = "done", !.raised = "IndexError"]
          ELSE IF out_name # default_name
          THEN nm' = [nm EXCEPT !.phase = "done", !.kind = "mean",
                         !.written = {out_name}]
          ELSE nm' = [nm EXCEPT !.phase = "done", !.kind = "each",
                         !.written = {nm.files[i] : i \in 1..Len(nm.files)}]
    /\ UNCHANGED <<oldVars, sl, rt, sv, rr>>

NextName ==
    \/ \E files \in FileLists : optimal_files(files)
    \/ optimal_name_and_write

(***************************************************************************)
(* CalibConfigurator (calib2.py, the same code in calib.py): the worker    *)
(* thread of _retrieve_ref_spectra and the handlers of the interactive     *)
(* thread.  Queued events are handled in the order they were queued, and   *)
(* before the next click on OK.  Nist.query succeeds or raises.            *)
(***************************************************************************)
MaxRef == 2
MaxRuns == 2
Species == {"Ne I", "Ar I"}
RefLists == UNION {[1..n -> Species] : n \in 1..MaxRef}

\* ProgressEvent(completion, msg) and ErrorEvent()
ProgressEvent(completion, has_msg) ==
    [kind |-> "progress", completion |-> completion, msg |-> has_msg]
ErrorEvent == [kind |-> "error", completion |-> 0, msg |-> FALSE]

\* [x for x in ref_lines if x not in present_lines]
ref_missing(ref_lines, present) ==
    SelectSeq(ref_lines, LAMBDA x : x \notin present)

RrIdle == [phase |-> "dialog",      \* "dialog", "retrieving", "closed"
           present |-> {},          \* species with a table in the calib directory
           missing |-> <<>>,
           wpc |-> "none",          \* position of the worker thread
           i |-> 0,                 \* index of `species` in `missing`
           completion |-> 0,
           failed |-> {},
           ack |-> FALSE,           \* _event_ack is set
           evq |-> <<>>,            \* events queued and not yet handled
           progress |-> FALSE,      \* self._progress is not None
           error_msg |-> FALSE,     \* self._error_msg is a non-empty string
           sent |-> <<>>,           \* completions queued by this retrieval
           handled |-> 0,           \* progress events of it handled so far
           released |-> TRUE,       \* every wait() so far returned after the
                                    \* event queued before it was handled
           runs |-> 0]

InitRetr == rr = RrIdle

\* _on_btn with wx.ID_OK and this list in the entry (calib2.py:434-463).
on_btn(ref_lines) ==
    /\ rr.phase = "dialog"
    /\ rr.evq = <<>>
    /\ rr.runs < MaxRuns
    /\ LET missing == ref_missing(ref_lines, rr.present)
       IN IF missing = <<>>
          THEN rr' = [rr EXCEPT !.phase = "closed"]
          ELSE rr' = [rr EXCEPT !.phase = "retrieving", !.progress = TRUE,
                         !.missing = missing, !.wpc = "start", !.sent = <<>>,
                         !.handled = 0, !.runs = @ + 1]
    /\ UNCHANGED <<oldVars, sl, rt, sv, nm>>

\* calib2.py:466-469
retrieve_start ==
    /\ rr.wpc = "start"
    /\ rr' = [rr EXCEPT !.ack = FALSE, !.completion = 0, !.failed = {},
                 !.i = 1, !.wpc = "queue"]
    /\ UNCHANGED <<oldVars, sl, rt, sv, nm>>

\* calib2.py:472-473
retrieve_queue ==
    /\ rr.wpc = "queue"
    /\ rr' = [rr EXCEPT !.evq = Append(@, ProgressEvent(rr.completion, TRUE)),
                 !.sent = Append(@, rr.completion), !.wpc = "wait"]
    /\ UNCHANGED <<oldVars, sl, rt, sv, nm>>

\* self._event_ack.wait() returns (calib2.py:474)
retrieve_wait ==
    /\ rr.wpc = "wait"
    /\ rr.ack
    /\ rr' = [rr EXCEPT !.wpc = "clear",
                 !.released = @ /\ rr.handled = Len(rr.sent)]
    /\ UNCHANGED <<oldVars, sl, rt, sv, nm>>

\* self._event_ack.clear() (calib2.py:475)
retrieve_clear ==
    /\ rr.wpc = "clear"
    /\ rr' = [rr EXCEPT !.ack = FALSE, !.wpc = "query"]
    /\ UNCHANGED <<oldVars, sl, rt, sv, nm>>

\* calib2.py:476-482: the query, and Config.save_calib_table, whose
\* table.write(file) raises OSError when the file exists (config.py:369-373).
retrieve_query(ok) ==
    /\ rr.wpc = "query"
    /\ LET species == rr.missing[rr.i]
           step == 100 \div Len(rr.missing)
           next == IF rr.i < Len(rr.missing) THEN "queue" ELSE "final"
       IN IF ~ok
          THEN rr' = [rr EXCEPT !.failed = @ \cup {species},
                         !.completion = @ + step, !.i = @ + 1, !.wpc = next]
          ELSE IF species \in rr.present
          THEN rr' = [rr EXCEPT !.wpc = "raised"]
          ELSE rr' = [rr EXCEPT !.present = @ \cup {species},
                         !.completion = @ + step, !.i = @ + 1, !.wpc = next]
    /\ UNCHANGED <<oldVars, sl, rt, sv, nm>>

\* calib2.py:484-490
retrieve_final ==
    /\ rr.wpc = "final"
    /\ rr' = [rr EXCEPT !.evq = Append(@, ProgressEvent(100, rr.failed # {})),
                 !.sent = Append(@, 100), !.wpc = "done"]
    /\ UNCHANGED <<oldVars, sl, rt, sv, nm>>

\* _on_progress; Update(100) hides the wx.PD_AUTO_HIDE dialog, which calls
\* _on_progress_close (calib2.py:492-514).
on_progress_retr ==
    /\ rr.evq # <<>>
    /\ Head(rr.evq).kind = "progress"
    /\ rr.progress
    /\ LET event == Head(rr.evq)
           hides == event.completion = 100
           error_msg == IF hides THEN event.msg ELSE rr.error_msg
       IN rr' = [rr EXCEPT
                 !.evq = IF hides /\ error_msg THEN Append(Tail(@), ErrorEvent)
                         ELSE Tail(@),
                 !.error_msg = error_msg,
                 !.progress = ~hides,
                 !.phase = IF hides THEN (IF error_msg THEN "dialog" ELSE "closed")
                           ELSE @,
                 !.handled = @ + 1,
                 !.ack = TRUE]
    /\ UNCHANGED <<oldVars, sl, rt, sv, nm>>

\* _on_error: wait() on the set event, then the message dialog.
on_error ==
    /\ rr.evq # <<>>
    /\ Head(rr.evq).kind = "error"
    /\ rr.ack
    /\ rr' = [rr EXCEPT !.evq = Tail(@)]
    /\ UNCHANGED <<oldVars, sl, rt, sv, nm>>

NextRetr ==
    \/ \E ref_lines \in RefLists : on_btn(ref_lines)
    \/ retrieve_start
    \/ retrieve_queue
    \/ retrieve_wait
    \/ retrieve_clear
    \/ \E ok \in BOOLEAN : retrieve_query(ok)
    \/ retrieve_final
    \/ on_progress_retr
    \/ on_error

(***************************************************************************)
(* Specifications                                                          *)
(***************************************************************************)
Init == InitReduce /\ InitConfig /\ InitExtract /\ InitCalib
        /\ InitDark /\ InitBounds
        /\ InitSlant /\ InitRotate /\ InitView /\ InitName /\ InitRetr

Spec == Init /\ [][NextReduce]_vars
SpecConfig == Init /\ [][NextConfig]_vars
SpecExtract == Init /\ [][NextExtract]_vars
SpecCalib == Init /\ [][NextCalib]_vars
SpecDark == Init /\ [][NextDark]_vars
SpecBounds == Init /\ [][NextBounds]_vars
SpecSlant == Init /\ [][NextSlant]_vars
SpecRotate == Init /\ [][NextRotate]_vars
SpecView == Init /\ [][NextView]_vars
SpecName == Init /\ [][NextName]_vars
SpecRetr == Init /\ [][NextRetr]_vars

(***************************************************************************)
(* Properties                                                              *)
(***************************************************************************)

C2_RejectedStayExcluded ==
    /\ ex.phase \in {"sky", "profile", "cosmic"} => ex.rejBefore \subseteq ex.mask
    /\ ex.rejBefore \cap (ex.fitUsed \cup ex.sumUsed) = {}

\* C3 as stated: after the profile loop no profile value is negative and the
\* profile values of every column sum to 1.
C3_EveryColumnSumsToOne ==
    ex.phase = "escalate" =>
        /\ \A q \in Pix : ex.p_r[q].v[1] >= 0
        /\ \A x \in Cols : MSum(ex.p_r, x) = M(RInt(1))

\* C3, amended: after the profile loop no profile value is negative; a column
\* whose clipped values are not all zero is unmasked and sums to 1, and a
\* column whose clipped values are all zero is masked.
C3_ProfileNormalised ==
    ex.phase = "escalate" =>
        \A x \in Cols :
            IF SumRows(Clip(ex.fit), x, NY) = RInt(0)
            THEN \A y \in Rows : ex.p_r[<<y, x>>].m
            ELSE /\ \A y \in Rows : /\ ~ex.p_r[<<y, x>>].m
                                    /\ ex.p_r[<<y, x>>].v[1] >= 0
                 /\ MSum(ex.p_r, x) = M(RInt(1))

\* The loop ended after at least one rejection, with a negative fitted value
\* clipped in a column that is not masked.
C3_ClippedColumn ==
    /\ ex.phase = "escalate"
    /\ ex.iter > 1
    /\ \E q \in Pix : ex.fit[q] < 0 /\ ~ex.p_r[q].m

\* C4: once the user has cancelled a task, its worker finishes at most the stage
\* it is in: it starts no later stage, writes no spectrum unless it was already
\* extracting, and never sends 'Data reduction complete.' -- also when another
\* task is started on the dialog while the cancelled worker still runs.
C4_CancelledWorkerStops ==
    \A t \in Tasks :
        cancelStage[t] > 0 =>
            /\ task[t].stage <= cancelStage[t]
            /\ ~task[t].completeSent
            /\ (t \in spectra => cancelStage[t] = StExtract)

\* C5: when a reduction task has ended, completed or cancelled, none of the
\* temporary directories it created is left.
C5_TempDirsRemoved ==
    \A t \in Tasks :
        task[t].pc \in {"done", "cancelled"} => ~(\E d \in dirs : d[1] = t)

\* C6: a stage reads the files written by the most recent earlier stage that
\* ran (the raw inputs if none did).
C6_StageReadsLatestOutput ==
    \A t \in Tasks : task[t].input_dir = task[t].expected

C8_EndReported ==
    progOpen =>
        \/ queue # <<>>
        \/ showPending
        \/ \E t \in Tasks : task[t].pc \notin Terminal

\* C9: once send_progress has returned True to a worker, every later call
\* returns True and queues no event.
C9_CancelledStaysCancelled ==
    \A t \in Tasks :
        task[t].trueSeen => task[t].spRes /\ task[t].sent = task[t].sentAtTrue

\* C10: an accessor of Config holds the instance lock throughout its work on the
\* store, and the lock is free whenever no accessor is executing.
C10_LockDiscipline ==
    /\ \A c \in CfgThreads : cth[c].pc \in {"cd", "body", "finally"} => lock = c
    /\ (\A c \in CfgThreads : cth[c].pc \in {"idle", "acquire"}) => lock = 0

\* C11: read in order of increasing pixel and ignoring unassigned points, the
\* assigned wavelengths of the calibration table never decrease.
C11_WavelengthsNeverDecrease ==
    \A i, j \in 1..Len(entries) :
        (i < j /\ entries[i].wave_len # NoWave /\ entries[j].wave_len # NoWave)
            => entries[i].wave_len <= entries[j].wave_len

\* C11 witness: an edit that contradicted an assigned neighbour was vetoed
\* while at least two points were assigned.
C11_VetoKeptOrder ==
    /\ calOutcome \in {"veto_low", "veto_high"}
    /\ num_valid(entries) >= 2

\* C12: a cell edit rejected because the wavelength is below the one of the
\* nearest assigned point at a lower pixel changes no wavelength and no row's
\* selectable wavelengths.
C12_RejectedLowHasNoEffect ==
    [][(calTick' # calTick /\ calOutcome' = "veto_low")
          => (entries' = entries /\ editors' = editors)]_vars

\* C13: every fit the dialog computes has at least 3 assigned points and a
\* degree between 1 and min(4, assigned - 2).
C13_FitHasEnoughPoints ==
    lastFit.deg # 0 =>
        /\ lastFit.n >= 3
        /\ lastFit.deg >= 1
        /\ lastFit.deg <= (IF lastFit.n - 2 > 4 THEN 4 ELSE lastFit.n - 2)


\* C14 as stated: without a dark of the frame's exposure time, the dark used
\* for scaling is the one with the smallest exposure time at or above the
\* frame's, and if there is none the one closest below.
C14_FallsBackToClosestBelow ==
    (dk.last.path \in {"scaled", "bias_only"}) =>
        LET times == DOMAIN dk.darks
            above == {c \in times : c >= dk.last.exp_time}
        IN IF above # {} THEN dk.last.picked = SetMin(above)
           ELSE times # {} => dk.last.picked = SetMax(times)

\* C14 amended: with a bias frame, the dark used for scaling is the one with
\* the smallest exposure time at or above the frame's; if there is none, no
\* dark is used and only the bias is subtracted.
C14_SmallestAtOrAbove ==
    (dk.last.path \in {"scaled", "bias_only"}) =>
        LET above == {c \in DOMAIN dk.darks : c >= dk.last.exp_time}
        IN IF above # {}
           THEN dk.last.path = "scaled" /\ dk.last.picked = SetMin(above)
           ELSE dk.last.path = "bias_only" /\ dk.last.picked = NoneT

\* C14 witness: a frame was corrected while every dark has a shorter
\* exposure time than the frame.
C14_OnlyShorterDarks ==
    /\ dk.last.path = "bias_only"
    /\ \E c \in DOMAIN dk.darks : c < dk.last.exp_time

\* C15: with a dark of exactly the frame's exposure time the correction gives
\* raw minus dark for every pixel, without scale and without bias; the frame
\* written is that difference with its negative values replaced by 0.
C15_DirectIsRawMinusDark ==
    dk.last.path = "direct" =>
        \A q \in PixD :
            LET diff == dk.last.raw[q] - dk.darks[dk.last.exp_time][q]
            IN /\ dk.last.corrected[q] = <<diff, 1>>
               /\ dk.last.out[q] = IF diff < 0 THEN <<0, 1>> ELSE <<diff, 1>>

\* C15 witness: a direct correction while a bias frame is configured.
C15_DirectWithBias ==
    /\ dk.last.path = "direct"
    /\ dk.hasBias
    /\ \E q \in PixD : dk.last.raw[q] > dk.darks[dk.last.exp_time][q]
    /\ \E q \in PixD : dk.bias[q] # 0

\* C16: with exposure time t, bias B and a selected dark of exposure time
\* t_d # t, the correction gives raw - B - (dark - B) * (t / t_d) for every pixel.
C16_ScaledFormula ==
    dk.last.path = "scaled" =>
        /\ dk.last.picked # dk.last.exp_time
        /\ \A q \in PixD :
              LET t == dk.last.exp_time
                  t_d == dk.last.picked
                  B == dk.bias[q]
              IN dk.last.corrected[q] =
                    Rat((dk.last.raw[q] - B) * t_d - (dk.darks[t_d][q] - B) * t, t_d)

\* C16 witness: a scaled correction whose scale is not a whole number.
C16_ScaledByFraction ==
    /\ dk.last.path = "scaled"
    /\ dk.last.exp_time % dk.last.picked # 0
    /\ \E q \in PixD : dk.last.corrected[q][2] # 1

\* C17: without a bias file the scaled correction is a logged no-op that
\* returns the frame's values, with a bias file but no usable dark it
\* subtracts the bias only; either way the frame is written and the loop
\* goes on.
C17_ScaledDegrades ==
    /\ dk.last.path = "noop" =>
          /\ ~dk.hasBias
          /\ dk.last.logged = "no bias file"
          /\ \A q \in PixD : dk.last.corrected[q] = <<dk.last.raw[q], 1>>
    /\ dk.last.path = "bias_only" =>
          /\ dk.hasBias
          /\ \A q \in PixD : dk.last.corrected[q] = <<dk.last.raw[q] - dk.bias[q], 1>>
    /\ dk.last.path \in {"noop", "bias_only"} =>
          /\ dk.nWritten >= 1
          /\ dk.last.out = clamp(dk.last.corrected)
          /\ dk.phase \in {"loop", "done"}

\* C17 witness: the second file of a run went through the bias-only path
\* and both files were written.
C17_SecondFileBiasOnly ==
    /\ dk.last.path = "bias_only"
    /\ dk.pos = 2
    /\ dk.nWritten = 2

C19_BoundsOrdered ==
    ob.found =>
        /\ ob.bounds.sky_low <= ob.bounds.data_low
        /\ ob.bounds.data_low <= ob.bounds.data_high
        /\ ob.bounds.data_high <= ob.bounds.sky_high

\* C20: a frame whose bounds detection fails is reported and skipped;
\* optimal() does not raise.
C20_FailedFrameSkipped ==
    ob.failed > 0 => (ob.phase # "raised" /\ ob.logged = ob.failed)

\* C25: the sky rejection loop of a column ends: every pass that does not
\* end it has masked a row that was not masked before, and when it ends no
\* row left unmasked has a normalised squared residual above 16 against the
\* polynomial returned.
C25_SkyLoopEnds ==
    /\ ex.phase = "sky" =>
          /\ Cardinality(ex.mask) >= ex.iter
          /\ ex.iter > 0 => ex.rejBefore # ex.mask /\ ex.rejBefore \subseteq ex.mask
    /\ ex.phase = "sky_done" =>
          /\ ex.iter <= NSky + 1
          /\ \A r \in SkyRows \ ex.rejBefore :
                LET dev == ex.y_data[r] - ex.poly[r]
                IN ~RGt(RInt(dev * dev), RMul(RInt(SkyLimit), InitVariance(ex.y_data[r])))

\* C25 witness: the loop ended after a pass that rejected rows.
C25_EndedAfterRejection ==
    /\ ex.phase = "sky_done"
    /\ ex.iter >= 2
    /\ ex.rejBefore # {}

C27_LimitStopsAtCutoff ==
    ex.phase \in {"cosmic", "done"} =>
        /\ Cardinality(AboveLimit(ex.residual, ex.limit)) <= rej_cutoff
        /\ \A k \in 0..((ex.limit - InitialLimit) \div LimitStep) :
              (InitialLimit + k * LimitStep < ex.limit) =>
                 Cardinality(AboveLimit(ex.residual, InitialLimit + k * LimitStep)) > rej_cutoff
        /\ (ex.limit - InitialLimit) % LimitStep = 0

\* C29: after any sequence of insertions, deletions, assignments and
\* clearings, the wavelengths a row's editor offers (besides '--') are exactly
\* the reference lines strictly between the wavelength of the nearest assigned
\* row below it and that of the nearest assigned row above it; a side without
\* an assigned row does not restrict the lines.
C29_ChoicesBetweenNeighbours ==
    \A row \in 0..(Len(entries) - 1) :
        LET below == {i \in 0..(row - 1) : get_wavelength(entries, i) # NoWave}
            above == {i \in (row + 1)..(Len(entries) - 1) :
                        get_wavelength(entries, i) # NoWave}
        IN editors[row + 1] =
             {w \in WaveLens :
                /\ below # {} => get_wavelength(entries, SetMax(below)) < w
                /\ above # {} => w < get_wavelength(entries, SetMin(above))}

\* C21: _move_row sets each output pixel t to the linear interpolation of the
\* input row at s = x_0 + t + offset, (1 - frac) * in_row[floor(s)] +
\* frac * in_row[ceil(s)] with frac = s - floor(s), hence in_row[s] for an
\* integral s, and to 0 when floor(s) or ceil(s) is outside 0 .. len(in_row) - 1.
C21_MoveRowInterpolates ==
    (sl.phase = "ready" /\ sl.n > 0 /\ sl.fit # NoFit) =>
        \A y \in RowsS, t \in 0..(sl.dim_x - 1) :
            LET s == RAdd(RInt(sl.x_0 + t), fit_at(sl.fit, y))
                lo == floor(s)
                hi == ceil(s)
                frac == RSub(s, RInt(lo))
                in_row == FrameS(sl.base)[y]
            IN sl.out[y][t] =
                 IF lo < 0 \/ hi > WidthS - 1 THEN RInt(0)
                 ELSE RAdd(RMul(RSub(RInt(1), frac), RInt(in_row[lo])),
                           RMul(frac, RInt(in_row[hi])))

\* C22: with fewer than 5 usable row positions for the slant line, also with
\* no peak at all, Slant.apply writes every frame unchanged and raises nothing.
\* The usable rows are the rows with a peak that are joined to the centre row
\* by rows with a peak.
C22_TooFewRowsIdentity ==
    LET y_cent == NRowsS \div 2
        usable == {y \in RowsS : \A z \in RowsS :
                      ((y <= z /\ z <= y_cent) \/ (y_cent <= z /\ z <= y))
                          => sl.peaks[z] # {}}
    IN (sl.phase = "ready" /\ Cardinality(usable) < 5) =>
          /\ sl.raised = "no"
          /\ sl.n > 0 =>
               sl.out = [y \in RowsS |-> [x \in ColsS |-> RInt(FrameS(sl.base)[y][x])]]
C22_FourRowsWritten ==
    /\ sl.phase = "ready"
    /\ sl.n > 0
    /\ sl.y_hi - sl.y_lo = 3
    /\ \A y \in RowsS : (sl.y_lo <= y /\ y <= sl.y_hi) <=> sl.peaks[y] # {}
    /\ sl.out = [y \in RowsS |-> [x \in ColsS |-> RInt(FrameS(sl.base)[y][x])]]

\* C23: the angle found by Rotate is 0 when the trace peak is on the same row
\* at both sample columns, and when no peak is found at a sample column the
\* stage takes the angle 0 and raises nothing.
C23_AngleZeroOrDegrade ==
    rt.phase # "new" =>
        LET peak_low == find_peak(rt.low)
            peak_hi == find_peak(rt.high)
        IN (peak_low = NoPeak \/ peak_hi = NoPeak \/ peak_low = peak_hi) =>
              rt.raised = "no" /\ rt.angle = RInt(0)

\* C24: Specview.add_spectrum, ContinuumFit.init and
\* PeakMeasureHandler.set_data all map the array index i to the wavelength
\* CRVAL1 + (i + 1 - CRPIX1) * CDELT1, for every CRPIX1, CRVAL1 and CDELT1.
C24_SameWavelength ==
    (sv.header.wcs /\ sv.done = {"add_spectrum", "ContinuumFit", "PeakMeasureHandler"}) =>
        \A i \in 0..(sv.size - 1) :
            LET w == RAdd(sv.header.CRVAL1,
                          RMul(RSub(RInt(i + 1), sv.header.CRPIX1), sv.header.CDELT1))
            IN /\ sv.view[i] = w
               /\ sv.fit[i] = w
               /\ RAdd(sv.lambda_start, RMul(RInt(i), sv.lambda_step)) = w

\* C28: optimal() on a single file writes under the file's own name; on
\* several files whose first two stems share a non-empty prefix it writes one
\* averaged spectrum under that prefix plus the first file's suffix; on
\* several files without a common prefix it writes one spectrum per file under
\* the file's own name; _get_common_name returns a name for every two stems.
C28_OutputNames ==
    nm.phase = "done" =>
        /\ nm.raised = "no"
        /\ Len(nm.files) = 1 => nm.written = {nm.files[1]}
        /\ Len(nm.files) > 1 =>
             LET s0 == nm.files[1].stem
                 s1 == nm.files[2].stem
                 common == {k \in 0..MinN(Len(s0), Len(s1)) :
                               \A j \in 1..k : s0[j] = s1[j]}
                 longest == CHOOSE k \in common : \A o \in common : o <= k
             IN IF longest > 0
                THEN /\ nm.kind = "mean"
                     /\ nm.written = {[stem |-> SubSeq(s0, 1, longest),
                                       suffix |-> nm.files[1].suffix]}
                ELSE /\ nm.kind = "each"
                     /\ nm.written = {nm.files[i] : i \in 1..Len(nm.files)}

\* C30: the retrieval of reference spectra runs to its end: the worker never
\* stops before its last event, every wait() on _event_ack returns after the
\* interactive thread handled the progress event queued just before, a species
\* is queried only after that event was handled, and the event queued after
\* the last species is the only one of the retrieval with completion 100.
C30_RetrievalRunsToEnd ==
    /\ rr.wpc # "raised"
    /\ rr.released
    /\ rr.wpc \in {"clear", "query"} => rr.handled = Len(rr.sent)
    /\ \A k \in 1..Len(rr.sent) :
          rr.sent[k] = 100 <=> (rr.wpc = "done" /\ k = Len(rr.sent))
    /\ rr.wpc = "done" => rr.sent # <<>> /\ rr.sent[Len(rr.sent)] = 100

====
